---- MODULE Spec2Model ----
(***************************************************************************)
(* SlabGen: the slab builder (core/slab_generator.py) and the surface      *)
(* screener (core/screening.py) as a state machine.                        *)
(*                                                                         *)
(* A client holds a bulk structure and a constructed SurfaceScreener.  It  *)
(* either calls screener.screen(progress_callback) or calls                *)
(* oriented_slab_replication directly (as SlabWorker.run and main.py do).  *)
(* The builder runs stage by stage; every stage is a call into the         *)
(* crystallography library, which either returns or raises.  Structures    *)
(* live in a heap of objects, so that aliasing and in-place mutation       *)
(* (make_supercell, the generator's site annotations) are visible.         *)
(*                                                                         *)
(* Spec        one client call: screen(), or one direct build.             *)
(* SpecRerun   screen() called repeatedly on one screener, the library's   *)
(*             outcome for every Miller index fixed beforehand.            *)
(* SpecRegions extract_surface_regions and compare_structures on a slab    *)
(*             (heights in whole Angstrom), the matcher as a black box.    *)
(* SpecDialog  the ScreeningDialog (ui/screening_dialog.py): the GUI thread *)
(*             running its slots, and the ScreeningWorker thread running   *)
(*             screen() and emitting signals to it, the library fixed.     *)
(* SpecWindow  the MainWindow (ui/main_window.py) with its SearchWorker and *)
(*             SlabWorker threads and the modal DFTInputDialog             *)
(*             (ui/dft_dialog.py), slab objects in a heap of their own.    *)
(* SpecSource  the MainWindow's structure source and the start of slab     *)
(*             generation alone.                                           *)
(***************************************************************************)
EXTENDS Integers, Sequences, FiniteSets, TLC

\* ---------------------------------------------------------------- bounds

\* Largest max_index a screener is constructed with; the enumeration yields
\* one Miller index per unit of max_index (see Enumerate).
MaxIndex == 2
\* Largest number of terminations get_slabs() returns for one cut.
MaxTerms == 2
\* Largest z_reps a caller passes.
MaxZReps == 2
\* Largest number of screen() calls a client makes on one screener.
MaxRuns == 2
\* Largest number of sites of a slab handed to the surface comparison.
MaxSites == 3
\* Largest Cartesian z (Angstrom) of a site of such a slab; the lowest is 0.
MaxHeight == 2
\* Largest number of worker threads a dialog or window starts.
MaxWorkers == 2
\* Largest number of documents a search delivers.
MaxDocs == 2

\* ------------------------------------------------------- values and inputs

None == "None"

\* Vacuum thicknesses (Angstrom) a caller passes.
VacuumValues == {0, 15}

\* The settings a direct caller of the builder passes.
BuildParams ==
  [z_reps : 1..MaxZReps, vacuum : VacuumValues,
   center_slab : BOOLEAN, force_ortho : BOOLEAN]

\* The settings a screener is constructed with: a thin top-only slab without
\* vacuum, orthogonalized, or the thickest slab with centred vacuum, as cut.
\* Every setting takes two values and no two settings agree throughout.
ScreenerParams ==
  { p \in BuildParams :
      /\ p.z_reps \in {1, MaxZReps}
      /\ (p.vacuum > 0) = (p.z_reps > 1)
      /\ p.center_slab = (p.vacuum > 0)
      /\ p.force_ortho = (p.z_reps = 1) }

\* The i-th Miller index of an enumeration: distinct, non-zero, and with
\* pairwise different components so that a swap of h, k, l shows.
MillerAt(i) == <<i + 1, i, 0>>

ZeroIndex == <<0, 0, 0>>

\* get_symmetrically_distinct_miller_indices(structure, max_index): the
\* library's list of distinct non-zero indices, in its own stable order.
Enumerate(max_index) == [i \in 1..max_index |-> MillerAt(i)]

\* A stage of the builder that raises raises an exception whose message names
\* the stage; the generator constructors raise ValueError, the other stages
\* RuntimeError.
ExcType(stage) ==
  IF stage \in {"orient_gen", "final_gen"} THEN "ValueError" ELSE "RuntimeError"

Raised(stage) == [type |-> ExcType(stage), msg |-> stage]

\* str(e)
Str(e) == e.msg

\* The bulk structure as the client loaded it: one repeat unit along c, no
\* site annotations.
BulkContent == [reps |-> 1, tagged |-> FALSE]

\* The cell the orientation cut makes of the bulk (Angstrom): the length of
\* its c vector and the height of c along the surface normal, which is at
\* least min_slab_size since the cut stacks cells until it is.
CellC == 5
CellHeight == 4
MinSlabSize == 1

\* Variant: every termination is cut at the same shift.
TermShiftSame(j) == 12337

\* Raw shift of the j-th termination get_slabs() returns, in units of 1e-5;
\* get_slab() cuts at its default shift.
TermShift(j) == j * 12337
DefaultShift == 0

\* round(x, 4) on a value in units of 1e-5: to the nearest multiple of ten,
\* ties to even.
Round4(x) ==
  LET q == x \div 10
      r == x % 10
  IN  IF r < 5 THEN q * 10
      ELSE IF r > 5 THEN (q + 1) * 10
      ELSE IF q % 2 = 0 THEN q * 10 ELSE (q + 1) * 10

\* is_symmetric() of a slab: returns True, returns False, or raises.
SymOutcomes == {"True", "False", "Raise"}

\* An optional Structure: None, or a structure with its sites in order.
NoStruct == [some |-> FALSE, sites |-> <<>>]
StructOf(sites) == [some |-> TRUE, sites |-> sites]

\* A site of a slab: its species, and its Cartesian x and z.  The i-th site
\* of a slab is of species i and sits at x = i.
Site(i, z) == [sp |-> i, x |-> i, z |-> z]

\* The slabs handed to the surface comparison: one site or more (a slab the
\* library cut has atoms), every site at a height of its own choosing.
SlabInputs ==
  UNION { { StructOf([i \in 1..n |-> Site(i, zs[i])]) :
              zs \in [1..n -> 0..MaxHeight] } : n \in 1..MaxSites }

\* The compare_depth values (Angstrom) a caller passes: the spin box gives
\* 0.0 and up, a caller of the function any number.
Depths == (0 - 1)..(MaxHeight + 1)

\* The RMSD values the matcher reports for a fit.
RmsdValues == {"0.0", "0.31"}

VARIABLES
  screener,           \* the SurfaceScreener object's attributes (failures exists
                      \* once has_failures is set)
  heap,               \* structure objects: id -> content
  bulk,               \* id of the client's bulk structure
  pc,                 \* position of the single thread of control
  progress_callback,  \* screen()'s argument: None or a callable
  miller_indices,     \* screen() locals
  idx,
  results,
  failures,
  slabs,
  sidx,
  bargs,              \* the builder's arguments (and who called it)
  bloc,               \* the builder's locals
  exc,                \* the exception in flight, if any
  outcome,            \* how the client's call ended
  cb_calls,           \* history: the (current, total) the callback was called with
  build_calls,        \* history: the arguments of every builder call
  build_ends,         \* history: how every builder call ended, and with what
  stages              \* history: the library stages the current build attempted

VARIABLES
  run,                \* how many screen() calls the client has made on the screener
  prev,               \* what the screen() call before the current one left behind
  primitives          \* the library as a function of its inputs, where it is fixed

VARIABLES
  apc,                \* position of the surface comparison
  region_args,        \* extract_surface_regions' arguments
  regions,            \* what extract_surface_regions returned
  cmp_args,           \* compare_structures' arguments
  cmp_result,         \* what compare_structures returned
  lib_calls           \* history: rotations and matcher calls made

VARIABLES
  dialog,             \* the ScreeningDialog's attributes and widgets
  emitted             \* the finished/error signals emitted by the dialog's
                      \* workers and queued for the GUI thread, oldest first

VARIABLES
  window,             \* the MainWindow's attributes and widgets
  workers,            \* the SlabWorker and SearchWorker threads it started
  wqueue,             \* their signals queued for the GUI thread, oldest first
  objects,            \* the slab objects the workers built: id -> content
  dft,                \* the DFTInputDialog, when one is open
  last                \* the generate_slabs call that ran last

screenVars == <<screener, heap, bulk, pc, progress_callback, miller_indices,
                idx, results, failures, slabs, sidx, bargs, bloc, exc, outcome,
                cb_calls, build_calls, build_ends, stages>>
rerunVars == <<run, prev, primitives>>
regionVars == <<apc, region_args, regions, cmp_args, cmp_result, lib_calls>>

dialogVars == <<dialog, emitted>>
windowVars == <<window, workers, wqueue, objects, dft, last>>
guiVars == <<dialogVars, windowVars>>

vars == <<screenVars, rerunVars, regionVars, guiVars>>

scrLocals == <<miller_indices, idx, results, failures, slabs, sidx>>
histories == <<cb_calls, build_calls, build_ends, stages>>

NoArgs == [caller |-> "none"]
NoLocals == [entry |-> BulkContent, src |-> 0, oriented |-> 0, slabs |-> <<>>]
NoExc == [type |-> "none", msg |-> ""]
NoOutcome == [kind |-> "none"]

NoPrev == [ran |-> FALSE, returned |-> FALSE, value |-> <<>>, failures |-> <<>>]

\* The builder's stages, in the order it runs them.
StageOrder == <<"orient_gen", "orient_get_slab", "make_supercell", "final_gen",
                "final_cut", "orthogonalize">>

\* What the library does for one Miller index when its outcome is fixed: one
\* of the stages raises, or none does ("none") and the final cut enumerates
\* nterms terminations.
PrimitiveOutcomes ==
  { [raise |-> StageOrder[i], nterms |-> 0] : i \in DOMAIN StageOrder }
    \cup { [raise |-> "none", nterms |-> n] : n \in 0..MaxTerms }

\* The library's outcomes are left open.
Unfixed == [fixed |-> FALSE, ends |-> <<>>, sym |-> "True"]
NoRegionArgs == [slab |-> NoStruct, compare_depth |-> 0]
NoRegions == [top |-> NoStruct, bottom |-> NoStruct]

\* The label's text with the two numbers it shows, if any.
Status(text, a, b) == [text |-> text, a |-> a, b |-> b]

\* ScreeningDialog.__init__: no results, no worker, the Run button enabled, the
\* three result buttons disabled, the progress bar at 0 of its default 100.
\* seen counts the progress signals of the current worker, handled the
\* finished/error signals of all workers, that the slots have been run for.
NewDialog ==
  [results |-> <<>>, worker |-> 0, table |-> <<>>,
   run_button |-> TRUE, export_csv_button |-> FALSE,
   export_poscar_button |-> FALSE, load_button |-> FALSE,
   progress_bar |-> [maximum |-> 100, value |-> 0],
   status_label |-> Status("", 0, 0),
   seen |-> 0, handled |-> 0]

\* An optional pymatgen Structure held by the window: None, or the object
\* read from a file or carried by a search document; copy tells an object
\* made by .copy() from the stored one.
NoStructure == [some |-> FALSE, src |-> "", n |-> 0, copy |-> FALSE]
FileStructure == [some |-> TRUE, src |-> "file", n |-> 1, copy |-> FALSE]
DocStructure(i) == [some |-> TRUE, src |-> "doc", n |-> i, copy |-> FALSE]

\* Variant: the stored object itself is handed out.
StructureCopyNot(s) == s

\* structure.copy()
StructureCopy(s) == [s EXCEPT !.copy = TRUE]

\* A search document: its id and its structure, which every second document
\* of the database lacks.
Doc(i) ==
  [material_id |-> i,
   structure |-> IF i % 2 = 1 THEN DocStructure(i) ELSE NoStructure]

\* The lists a search delivers: the first n documents, MaxDocs at most.
SearchResults == { [i \in 1..n |-> Doc(i)] : n \in 0..MaxDocs }

\* An optional row number: None, or the row (from 0; -1 for "no row").
NoRow == [some |-> FALSE, row |-> 0]
Row(r) == [some |-> TRUE, row |-> r]

\* A QTableWidget: its number of rows and its current row (-1: none).
EmptyTable == [rows |-> 0, current |-> 0 - 1]

\* setRowCount(n): a current row that is removed is no longer current.
SetRowCount(t, n) ==
  [rows |-> n, current |-> IF t.current >= n THEN 0 - 1 ELSE t.current]

\* The values _pending_supercell takes: (1, 1) or an expansion along a.
SupercellValues == {1, 2}

\* MainWindow.__init__: no structure, no documents, no slabs, no worker, every
\* button enabled.  controls stands for the six buttons _set_controls_enabled
\* switches together, exported for the handler that wrote slab files last;
\* in_events holds inside processEvents().  The viewer displays the current
\* row's slab.
NewWindow ==
  [structure_docs |-> <<>>, selected_doc_index |-> NoRow,
   generated_slabs |-> <<>>, local_structure |-> NoStructure,
   search_worker |-> 0, slab_worker |-> 0,
   struct_table |-> EmptyTable, slabs_table |-> EmptyTable,
   controls |-> TRUE,
   pending_supercell |-> 1, pending_worker |-> 0,
   exported |-> "", in_events |-> FALSE, alive |-> TRUE]

\* No slab objects.  A slab object's id is the worker that built it and its
\* position in the list the worker emitted.
NoObjects == [id \in {} |-> 0]
NoSlab == <<0, 0>>

\* The freeze threshold (fractional z, in tenths): the spin box's 0.3.
FreezeThreshold == 3

\* No DFTInputDialog is open.
NoDft == [open |-> FALSE, slab |-> NoSlab, selective_dynamics_check |-> FALSE,
          freeze_threshold |-> FreezeThreshold]

\* The generate_slabs call that ran last: the index in the spin boxes,
\* whether a structure was chosen, and whether the call warned and returned.
NoCall == [called |-> FALSE, miller |-> ZeroIndex, chosen |-> FALSE,
           warned |-> FALSE]
Call(miller, chosen, warned) ==
  [called |-> TRUE, miller |-> miller, chosen |-> chosen, warned |-> warned]

InitScreen ==
  /\ \E p \in ScreenerParams, m \in 0..MaxIndex :
       screener = [structure |-> 1, max_index |-> m, z_reps |-> p.z_reps,
                   vacuum |-> p.vacuum, center_slab |-> p.center_slab,
                   force_ortho |-> p.force_ortho,
                   has_failures |-> FALSE, failures |-> <<>>]
  /\ heap = <<BulkContent>>
  /\ bulk = 1
  /\ pc = "idle"
  /\ progress_callback = None
  /\ miller_indices = <<>>
  /\ idx = 0
  /\ results = <<>>
  /\ failures = <<>>
  /\ slabs = <<>>
  /\ sidx = 0
  /\ bargs = NoArgs
  /\ bloc = NoLocals
  /\ exc = NoExc
  /\ outcome = NoOutcome
  /\ cb_calls = <<>>
  /\ build_calls = <<>>
  /\ build_ends = <<>>
  /\ stages = <<>>
  /\ run = 0
  /\ prev = NoPrev
  /\ apc = "idle"
  /\ region_args = NoRegionArgs
  /\ regions = NoRegions
  /\ cmp_args = NoRegions
  /\ cmp_result = <<FALSE, None>>
  /\ lib_calls = <<>>
  /\ dialog = NewDialog
  /\ emitted = <<>>
  /\ window = NewWindow
  /\ workers = <<>>
  /\ wqueue = <<>>
  /\ objects = NoObjects
  /\ dft = NoDft
  /\ last = NoCall

Init == InitScreen /\ primitives = Unfixed

\* ------------------------------------------------- library effects on objects

\* Structure.copy(): a new object with the same content; its id is the next
\* free one.
CopyOf(hp, id) == [heap |-> Append(hp, hp[id]), id |-> Len(hp) + 1]

\* SlabGenerator(initial_structure = id, ...) annotates the structure it is
\* given with site properties, in place.
Annotate(hp, id) == [hp EXCEPT ![id].tagged = TRUE]

\* Variant: the replication is left out.
SupercellNot(hp, id, z) == hp

\* id.make_supercell([1, 1, z]): in place, z repeat units along c.
Supercell(hp, id, z) == [hp EXCEPT ![id].reps = @ * z]

\* ceil(a / b) for b > 0
CeilDiv(a, b) == (a + b - 1) \div b

\* The cell of a slab the generator cuts from a structure of reps repeat units
\* with min_slab_size 1.0 and min_vacuum_size min_vac: whole layers of the
\* structure's cell, ceil(size / height) of them for the slab and for the
\* vacuum; c_len is the length of the c vector, c_height its height along the
\* surface normal.
CutCell(reps, min_vac) ==
  LET h == reps * CellHeight
      nlayers == CeilDiv(MinSlabSize, h) + CeilDiv(min_vac, h)
  IN  [c_len |-> nlayers * reps * CellC, c_height |-> nlayers * h]

\* A slab as the library hands it out: which termination it is, its raw
\* shift, what is_symmetric() will do on it, its atom count, its cell.
Slab(term, shift, sym, atoms, cell) ==
  [term |-> term, shift |-> shift, sym |-> sym, ortho |-> FALSE,
   num_atoms |-> atoms, c_len |-> cell.c_len, c_height |-> cell.c_height]

\* get_slabs(symmetrize=False): some number of terminations, in the library's
\* order.
TermLists(atoms, cell) ==
  UNION { { [j \in 1..n |-> Slab(j, TermShift(j), syms[j], atoms, cell)] :
              syms \in [1..n -> SymOutcomes] } : n \in 0..MaxTerms }

\* get_slab(): one slab at the default shift.
SingleSlabs(atoms, cell) ==
  { Slab(0, DefaultShift, s, atoms, cell) : s \in SymOutcomes }

\* s.get_orthogonal_c_slab(): the same slab with c along the surface normal.
OrthoSlab(s) == [s EXCEPT !.ortho = TRUE, !.c_len = s.c_height]

\* Variant: of the orthogonalized slabs that is_symmetric() cannot tell apart
\* only the first is kept.
OrthoAllDedup(ss) ==
  LET First(s) == \A j \in DOMAIN ss : ss[j].sym = s.sym => ss[j].term >= s.term
  IN  SelectSeq([j \in 1..Len(ss) |-> OrthoSlab(ss[j])], First)

\* [s.get_orthogonal_c_slab() for s in slabs]
OrthoAll(ss) == [j \in 1..Len(ss) |-> OrthoSlab(ss[j])]

\* Variant: the final generator gets no vacuum, like the orientation one.
FinalGenVacuumZero(min_vac) == 0

\* min_vacuum_size=min_vac of the final generator
FinalGenVacuum(min_vac) == min_vac

\* ------------------------------------------- oriented_slab_replication

\* Variant: the generator is built on the caller's structure itself.
OrientNoCopy(hp, structure) == [heap |-> hp, id |-> structure]

\* structure.copy() handed to the orientation generator.
OrientCopy(hp, structure) == CopyOf(hp, structure)

\* Variant: the flag is ignored and every termination is returned.
FinalSlabsAllAlways(all_terminations, terms, single) == terms

\* slabs = get_slabs(symmetrize=False) if all_terminations else [get_slab()]
FinalSlabs(all_terminations, terms, single) ==
  IF all_terminations THEN terms ELSE <<single>>

\* A stage raises: the builder has no handler, the exception goes to its caller.
BuilderRaises(stage) ==
  /\ exc' = Raised(stage)
  /\ pc' = "bld_raised"
  /\ build_ends' = Append(build_ends, [kind |-> "raised", msg |-> stage,
                                       slabs |-> <<>>])

\* A stage returns: on to the next one.
BuilderGoes(next) ==
  /\ pc' = next
  /\ UNCHANGED <<exc, build_ends>>

\* return slabs
BuilderReturns(ss) ==
  /\ pc' = "bld_return"
  /\ build_ends' = Append(build_ends, [kind |-> "returned", msg |-> "",
                                       slabs |-> ss])
  /\ UNCHANGED exc

\* Step 1a: orient_gen = SlabGenerator(structure.copy(), (h,k,l), 1.0, 0.0, False)
OrientGen ==
  /\ pc = "bld_orient_gen"
  /\ LET c == OrientCopy(heap, bargs.structure) IN
       /\ heap' = Annotate(c.heap, c.id)
       /\ bloc' = [bloc EXCEPT !.src = c.id]
  /\ stages' = Append(stages, "orient_gen")
  /\ \/ BuilderGoes("bld_orient_get_slab")
     \/ BuilderRaises("orient_gen")
  /\ UNCHANGED <<rerunVars, regionVars, guiVars>>
  /\ UNCHANGED <<screener, bulk, progress_callback, scrLocals, bargs, outcome,
                 cb_calls, build_calls>>

\* Variant: the oriented cell goes to the final generator unreplicated.
OrientGetSlabSkipsSupercell ==
  /\ pc = "bld_orient_get_slab"
  /\ stages' = Append(stages, "orient_get_slab")
  /\ \/ /\ heap' = Append(heap, heap[bloc.src])
        /\ bloc' = [bloc EXCEPT !.oriented = Len(heap) + 1]
        /\ BuilderGoes("bld_final_gen")
     \/ /\ BuilderRaises("orient_get_slab")
        /\ UNCHANGED <<heap, bloc>>
  /\ UNCHANGED <<rerunVars, regionVars, guiVars>>
  /\ UNCHANGED <<screener, bulk, progress_callback, scrLocals, bargs, outcome,
                 cb_calls, build_calls>>

\* Step 1b: oriented_slab = orient_gen.get_slab()
OrientGetSlab ==
  /\ pc = "bld_orient_get_slab"
  /\ stages' = Append(stages, "orient_get_slab")
  /\ \/ /\ heap' = Append(heap, heap[bloc.src])
        /\ bloc' = [bloc EXCEPT !.oriented = Len(heap) + 1]
        /\ BuilderGoes("bld_make_supercell")
     \/ /\ BuilderRaises("orient_get_slab")
        /\ UNCHANGED <<heap, bloc>>
  /\ UNCHANGED <<rerunVars, regionVars, guiVars>>
  /\ UNCHANGED <<screener, bulk, progress_callback, scrLocals, bargs, outcome,
                 cb_calls, build_calls>>

\* Step 2: oriented_slab.make_supercell([1, 1, z_reps])
MakeSupercell ==
  /\ pc = "bld_make_supercell"
  /\ stages' = Append(stages, "make_supercell")
  /\ \/ /\ heap' = Supercell(heap, bloc.oriented, bargs.z_reps)
        /\ BuilderGoes("bld_final_gen")
     \/ /\ BuilderRaises("make_supercell")
        /\ UNCHANGED heap
  /\ UNCHANGED <<rerunVars, regionVars, guiVars>>
  /\ UNCHANGED <<screener, bulk, progress_callback, scrLocals, bargs, bloc,
                 outcome, cb_calls, build_calls>>

\* Step 3a: final_gen = SlabGenerator(oriented_slab, (0,0,1), 1.0, min_vac, center_slab)
FinalGen ==
  /\ pc = "bld_final_gen"
  /\ stages' = Append(stages, "final_gen")
  /\ heap' = Annotate(heap, bloc.oriented)
  /\ \/ BuilderGoes("bld_final_cut")
     \/ BuilderRaises("final_gen")
  /\ UNCHANGED <<rerunVars, regionVars, guiVars>>
  /\ UNCHANGED <<screener, bulk, progress_callback, scrLocals, bargs, bloc,
                 outcome, cb_calls, build_calls>>

\* Step 3b: the cut with vacuum: all terminations, or one.
FinalCut ==
  /\ pc = "bld_final_cut"
  /\ stages' = Append(stages, "final_cut")
  /\ \/ /\ LET atoms == heap[bloc.oriented].reps
                 cell == CutCell(heap[bloc.oriented].reps,
                                 FinalGenVacuum(bargs.min_vac))
             IN  \E terms \in TermLists(atoms, cell),
                    single \in SingleSlabs(atoms, cell) :
                   bloc' = [bloc EXCEPT
                     !.slabs = FinalSlabs(bargs.all_terminations, terms, single)]
        /\ BuilderGoes("bld_orthogonalize")
     \/ /\ BuilderRaises("final_cut")
        /\ UNCHANGED bloc
  /\ UNCHANGED <<rerunVars, regionVars, guiVars>>
  /\ UNCHANGED <<screener, heap, bulk, progress_callback, scrLocals, bargs,
                 outcome, cb_calls, build_calls>>

\* Step 4: if force_ortho: slabs = [s.get_orthogonal_c_slab() for s in slabs];
\* then return slabs.
Orthogonalize ==
  /\ pc = "bld_orthogonalize"
  /\ IF bargs.force_ortho
       THEN /\ stages' = Append(stages, "orthogonalize")
            /\ \/ /\ bloc' = [bloc EXCEPT !.slabs = OrthoAll(bloc.slabs)]
                  /\ BuilderReturns(OrthoAll(bloc.slabs))
               \/ /\ BuilderRaises("orthogonalize")
                  /\ UNCHANGED bloc
       ELSE /\ BuilderReturns(bloc.slabs)
            /\ UNCHANGED <<stages, bloc>>
  /\ UNCHANGED <<rerunVars, regionVars, guiVars>>
  /\ UNCHANGED <<screener, heap, bulk, progress_callback, scrLocals, bargs,
                 outcome, cb_calls, build_calls>>

\* ------------------------------------------------ SurfaceScreener.screen

\* structure = self.structure.copy(), the builder's structure argument.
ScreenCopy(hp, structure) == CopyOf(hp, structure)

\* Variant: center_slab and force_ortho change places.
BuildArgsSwapped(scr, structure, m) ==
  [caller |-> "screen", structure |-> structure,
   h |-> m[1], k |-> m[2], l |-> m[3],
   z_reps |-> scr.z_reps, min_vac |-> scr.vacuum,
   center_slab |-> scr.force_ortho, all_terminations |-> TRUE,
   force_ortho |-> scr.center_slab]

\* The keyword arguments of the builder call in the loop body.
BuildArgs(scr, structure, m) ==
  [caller |-> "screen", structure |-> structure,
   h |-> m[1], k |-> m[2], l |-> m[3],
   z_reps |-> scr.z_reps, min_vac |-> scr.vacuum,
   center_slab |-> scr.center_slab, all_terminations |-> TRUE,
   force_ortho |-> scr.force_ortho]

\* Variant: except ValueError.
CaughtValueError(e) == e.type = "ValueError"

\* except Exception: every exception the library raises is an Exception.
Caught(e) == e.type \in {"ValueError", "RuntimeError"}

\* {"miller": (h, k, l), "error": str(e)}
FailureRecord(h, k, l, e) == [miller |-> <<h, k, l>>, error |-> Str(e)]

\* Variant: a failed check counts as "not symmetric".
IsSymDefaultFalse(slab) == IF slab.sym = "Raise" THEN "False" ELSE slab.sym

\* try: is_sym = slab.is_symmetric()  except Exception: is_sym = None
IsSym(slab) == IF slab.sym = "Raise" THEN None ELSE slab.sym

\* The dict appended for one slab (the fields read off the slab itself,
\* surface area and formula, travel with the slab).
ResultRecord(h, k, l, slab) ==
  [miller |-> <<h, k, l>>, shift |-> Round4(slab.shift),
   num_atoms |-> slab.num_atoms, is_symmetric |-> IsSym(slab), slab |-> slab]

\* Variant: results.insert(0, record)
AddResultFirst(rs, rec) == <<rec>> \o rs

\* results.append(record)
AddResult(rs, rec) == Append(rs, rec)

\* Variant: the count of the index about to be processed, from one.
ProgressBeforeFromOne(i, n) == <<i + 1, n>>

\* The arguments of the progress call at the top of iteration i of n, and of
\* the one after the loop.
ProgressBefore(i, n) == <<i, n>>
ProgressAfter(n) == <<n, n>>

\* Variant: a callback returning "stop" ends the loop.
AfterProgressHonoursStop(ret) == IF ret = "stop" THEN "scr_return" ELSE "scr_try"

\* Where screen() goes when a progress call before an iteration returned ret:
\* the call is an expression statement, its value is dropped.
AfterProgress(ret) == "scr_try"

\* What a callback may return.
CallbackReturns == {None, "stop"}

total == Len(miller_indices)

\* (h, k, l) of the iteration in progress
CurMiller == miller_indices[idx + 1]

\* An exception leaves screen(): the client's call ends with it.
Escapes(e, origin) ==
  /\ pc' = "ended"
  /\ outcome' = [kind |-> "raised", exc |-> e, origin |-> origin]

\* Variant: the failure list starts from the one the run before left on the
\* screener.
ScreenEnumerateKeepsFailures ==
  /\ pc = "scr_enumerate"
  /\ \/ /\ miller_indices' = Enumerate(screener.max_index)
        /\ idx' = 0
        /\ results' = <<>>
        /\ failures' = screener.failures
        /\ pc' = "scr_loop"
        /\ UNCHANGED outcome
     \/ /\ Escapes([type |-> "RuntimeError", msg |-> "enumerate"], "enumerate")
        /\ UNCHANGED <<miller_indices, idx, results, failures>>
  /\ UNCHANGED <<rerunVars, regionVars, guiVars>>
  /\ UNCHANGED <<screener, heap, bulk, progress_callback, slabs, sidx, bargs,
                 bloc, exc, histories>>

\* miller_indices = get_symmetrically_distinct_miller_indices(...); total,
\* results, failures.  The enumeration is outside every try block.
ScreenEnumerate ==
  /\ pc = "scr_enumerate"
  /\ \/ /\ miller_indices' = Enumerate(screener.max_index)
        /\ idx' = 0
        /\ results' = <<>>
        /\ failures' = <<>>
        /\ pc' = "scr_loop"
        /\ UNCHANGED outcome
     \/ /\ Escapes([type |-> "RuntimeError", msg |-> "enumerate"], "enumerate")
        /\ UNCHANGED <<miller_indices, idx, results, failures>>
  /\ UNCHANGED <<rerunVars, regionVars, guiVars>>
  /\ UNCHANGED <<screener, heap, bulk, progress_callback, slabs, sidx, bargs,
                 bloc, exc, histories>>

\* Top of an iteration: if progress_callback: progress_callback(idx, total).
\* The callback is the caller's code: it returns (its value is dropped) or
\* raises, and the call is outside the try block.
ScreenProgress ==
  /\ pc = "scr_loop"
  /\ idx < total
  /\ IF progress_callback = None
       THEN /\ pc' = "scr_try"
            /\ UNCHANGED <<cb_calls, outcome>>
       ELSE /\ cb_calls' = Append(cb_calls, ProgressBefore(idx, total))
            /\ \/ /\ \E ret \in CallbackReturns : pc' = AfterProgress(ret)
                  /\ UNCHANGED outcome
               \/ Escapes([type |-> "CallbackError", msg |-> "callback"],
                          "callback")
  /\ UNCHANGED <<rerunVars, regionVars, guiVars>>
  /\ UNCHANGED <<screener, heap, bulk, progress_callback, scrLocals, bargs,
                 bloc, exc, build_calls, build_ends, stages>>

\* try: slabs = oriented_slab_replication(structure=self.structure.copy(), ...)
ScreenCallBuilder ==
  /\ pc = "scr_try"
  /\ LET c == ScreenCopy(heap, screener.structure)
         a == BuildArgs(screener, c.id, CurMiller)
     IN  /\ heap' = c.heap
         /\ bargs' = a
         /\ bloc' = [NoLocals EXCEPT !.entry = c.heap[c.id]]
         /\ build_calls' = Append(build_calls, a)
  /\ stages' = <<>>
  /\ pc' = "bld_orient_gen"
  /\ UNCHANGED <<rerunVars, regionVars, guiVars>>
  /\ UNCHANGED <<screener, bulk, progress_callback, scrLocals, exc, outcome,
                 cb_calls, build_ends>>

\* Variant: the handler records the failure but lacks the continue, so the
\* inner loop runs over the slabs of the iteration before.
ScreenExceptFallsThrough ==
  /\ pc = "bld_raised"
  /\ bargs.caller = "screen"
  /\ failures' = Append(failures,
         FailureRecord(CurMiller[1], CurMiller[2], CurMiller[3], exc))
  /\ sidx' = 1
  /\ pc' = "scr_slabs"
  /\ exc' = NoExc
  /\ UNCHANGED <<rerunVars, regionVars, guiVars>>
  /\ UNCHANGED <<screener, heap, bulk, progress_callback, miller_indices, idx,
                 results, slabs, bargs, bloc, outcome, histories>>

\* except Exception as e: failures.append({...}); continue
ScreenExcept ==
  /\ pc = "bld_raised"
  /\ bargs.caller = "screen"
  /\ IF Caught(exc)
       THEN /\ failures' = Append(failures,
                 FailureRecord(CurMiller[1], CurMiller[2], CurMiller[3], exc))
            /\ idx' = idx + 1
            /\ pc' = "scr_loop"
            /\ UNCHANGED outcome
       ELSE /\ Escapes(exc, "builder")
            /\ UNCHANGED <<failures, idx>>
  /\ exc' = NoExc
  /\ UNCHANGED <<rerunVars, regionVars, guiVars>>
  /\ UNCHANGED <<screener, heap, bulk, progress_callback, miller_indices,
                 results, slabs, sidx, bargs, bloc, histories>>

\* The builder returned: for slab in slabs
ScreenGotSlabs ==
  /\ pc = "bld_return"
  /\ bargs.caller = "screen"
  /\ slabs' = bloc.slabs
  /\ sidx' = 1
  /\ pc' = "scr_slabs"
  /\ UNCHANGED <<rerunVars, regionVars, guiVars>>
  /\ UNCHANGED <<screener, heap, bulk, progress_callback, miller_indices, idx,
                 results, failures, bargs, bloc, exc, outcome, histories>>

\* One pass of the inner loop: the symmetry check and results.append({...}).
ScreenSlab ==
  /\ pc = "scr_slabs"
  /\ sidx <= Len(slabs)
  /\ results' = AddResult(results,
        ResultRecord(CurMiller[1], CurMiller[2], CurMiller[3], slabs[sidx]))
  /\ sidx' = sidx + 1
  /\ UNCHANGED <<rerunVars, regionVars, guiVars>>
  /\ UNCHANGED <<screener, heap, bulk, pc, progress_callback, miller_indices,
                 idx, failures, slabs, bargs, bloc, exc, outcome, histories>>

\* The inner loop is exhausted: next Miller index.
ScreenNextIndex ==
  /\ pc = "scr_slabs"
  /\ sidx > Len(slabs)
  /\ idx' = idx + 1
  /\ pc' = "scr_loop"
  /\ UNCHANGED <<rerunVars, regionVars, guiVars>>
  /\ UNCHANGED <<screener, heap, bulk, progress_callback, miller_indices,
                 results, failures, slabs, sidx, bargs, bloc, exc, outcome,
                 histories>>

\* After the loop: if progress_callback: progress_callback(total, total)
ScreenFinalProgress ==
  /\ pc = "scr_loop"
  /\ idx = total
  /\ IF progress_callback = None
       THEN /\ pc' = "scr_return"
            /\ UNCHANGED <<cb_calls, outcome>>
       ELSE /\ cb_calls' = Append(cb_calls, ProgressAfter(total))
            /\ \/ pc' = "scr_return" /\ UNCHANGED outcome
               \/ Escapes([type |-> "CallbackError", msg |-> "callback"],
                          "callback")
  /\ UNCHANGED <<rerunVars, regionVars, guiVars>>
  /\ UNCHANGED <<screener, heap, bulk, progress_callback, scrLocals, bargs,
                 bloc, exc, build_calls, build_ends, stages>>

\* Variant: self.failures = self.failures + failures
ScreenReturnAccumulates ==
  /\ pc = "scr_return"
  /\ screener' = [screener EXCEPT !.has_failures = TRUE,
                                  !.failures = screener.failures \o failures]
  /\ outcome' = [kind |-> "returned", value |-> results]
  /\ pc' = "ended"
  /\ UNCHANGED <<rerunVars, regionVars, guiVars>>
  /\ UNCHANGED <<heap, bulk, progress_callback, scrLocals, bargs, bloc, exc,
                 histories>>

\* self.failures = failures; return results
ScreenReturn ==
  /\ pc = "scr_return"
  /\ screener' = [screener EXCEPT !.has_failures = TRUE, !.failures = failures]
  /\ outcome' = [kind |-> "returned", value |-> results]
  /\ pc' = "ended"
  /\ UNCHANGED <<rerunVars, regionVars, guiVars>>
  /\ UNCHANGED <<heap, bulk, progress_callback, scrLocals, bargs, bloc, exc,
                 histories>>

\* ------------------------------------------------------------ the client

\* results = screener.screen(progress_callback=cb), cb a callable or None.
ClientScreen ==
  /\ pc = "idle"
  /\ \E cb \in {None, "callable"} : progress_callback' = cb
  /\ pc' = "scr_enumerate"
  /\ UNCHANGED <<rerunVars, regionVars, guiVars>>
  /\ UNCHANGED <<screener, heap, bulk, scrLocals, bargs, bloc, exc, outcome,
                 histories>>

\* A direct call of the builder on the client's structure with the Miller
\* index and the all_terminations flag of its choice (SlabWorker.run,
\* main.py's generate_slabs); no caller-side check is part of the builder.
ClientBuild ==
  /\ pc = "idle"
  /\ \E m \in {ZeroIndex, MillerAt(1)}, all \in BOOLEAN, p \in BuildParams :
       LET a == [caller |-> "client", structure |-> bulk,
                 h |-> m[1], k |-> m[2], l |-> m[3],
                 z_reps |-> p.z_reps, min_vac |-> p.vacuum,
                 center_slab |-> p.center_slab,
                 all_terminations |-> all,
                 force_ortho |-> p.force_ortho]
       IN  /\ bargs' = a
           /\ build_calls' = Append(build_calls, a)
  /\ bloc' = [NoLocals EXCEPT !.entry = heap[bulk]]
  /\ stages' = <<>>
  /\ pc' = "bld_orient_gen"
  /\ UNCHANGED <<rerunVars, regionVars, guiVars>>
  /\ UNCHANGED <<screener, heap, bulk, progress_callback, scrLocals, exc,
                 outcome, cb_calls, build_ends>>

\* The builder returned to the client.
ClientGotSlabs ==
  /\ pc = "bld_return"
  /\ bargs.caller = "client"
  /\ outcome' = [kind |-> "returned", value |-> bloc.slabs]
  /\ pc' = "ended"
  /\ UNCHANGED <<rerunVars, regionVars, guiVars>>
  /\ UNCHANGED <<screener, heap, bulk, progress_callback, scrLocals, bargs,
                 bloc, exc, histories>>

\* The builder raised to the client: single-build errors propagate.
ClientGotRaise ==
  /\ pc = "bld_raised"
  /\ bargs.caller = "client"
  /\ Escapes(exc, "builder")
  /\ exc' = NoExc
  /\ UNCHANGED <<rerunVars, regionVars, guiVars>>
  /\ UNCHANGED <<screener, heap, bulk, progress_callback, scrLocals, bargs,
                 bloc, histories>>

Builder ==
  \/ OrientGen
  \/ OrientGetSlab
  \/ MakeSupercell
  \/ FinalGen
  \/ FinalCut
  \/ Orthogonalize

Screen ==
  \/ ScreenEnumerate
  \/ ScreenProgress
  \/ ScreenCallBuilder
  \/ ScreenExcept
  \/ ScreenGotSlabs
  \/ ScreenSlab
  \/ ScreenNextIndex
  \/ ScreenFinalProgress
  \/ ScreenReturn

Client ==
  \/ ClientScreen
  \/ ClientBuild
  \/ ClientGotSlabs
  \/ ClientGotRaise

Next == Builder \/ Screen \/ Client

Spec == Init /\ [][Next]_vars

\* ------------------------------------------ screen() again, library fixed

\* screen() has returned and the client calls it once more on the same
\* screener, with a callback of its choice: a new frame, the screener and the
\* structures as the call before left them.
ClientScreenAgain ==
  /\ pc = "ended"
  /\ bargs.caller # "client"
  /\ outcome.kind = "returned"
  /\ run + 1 < MaxRuns
  /\ run' = run + 1
  /\ prev' = [ran |-> TRUE, returned |-> TRUE, value |-> outcome.value,
              failures |-> screener.failures]
  /\ \E cb \in {None, "callable"} : progress_callback' = cb
  /\ pc' = "scr_enumerate"
  /\ miller_indices' = <<>>
  /\ idx' = 0
  /\ results' = <<>>
  /\ failures' = <<>>
  /\ slabs' = <<>>
  /\ sidx' = 0
  /\ bargs' = NoArgs
  /\ bloc' = NoLocals
  /\ exc' = NoExc
  /\ outcome' = NoOutcome
  /\ cb_calls' = <<>>
  /\ build_calls' = <<>>
  /\ build_ends' = <<>>
  /\ stages' = <<>>
  /\ UNCHANGED <<screener, heap, bulk, primitives, regionVars, guiVars>>

\* A build that ended did what the fixed library does for its Miller index.
EndObeys(e, o, force_ortho) ==
  IF o.raise = "none" \/ (o.raise = "orthogonalize" /\ ~force_ortho)
    THEN /\ e.kind = "returned"
         /\ Len(e.slabs) = o.nterms
         /\ \A j \in DOMAIN e.slabs : e.slabs[j].sym = primitives.sym
    ELSE e.kind = "raised" /\ e.msg = o.raise

\* The library is deterministic: the builds of a run, the one in progress
\* included, go the way primitives has it for their Miller index.
Obeys ==
  /\ \A i \in DOMAIN build_ends :
       EndObeys(build_ends[i], primitives.ends[i], screener.force_ortho)
  /\ pc \in {"bld_orient_get_slab", "bld_make_supercell", "bld_final_gen",
              "bld_final_cut", "bld_orthogonalize"}
       => LET o == primitives.ends[Len(build_ends) + 1] IN
            /\ \A j \in DOMAIN stages : stages[j] # o.raise
            /\ pc = "bld_orthogonalize"
                 => /\ Len(bloc.slabs) = o.nterms
                    /\ \A j \in DOMAIN bloc.slabs :
                         bloc.slabs[j].sym = primitives.sym

\* A screener, and a library whose outcome for every Miller index is fixed.
InitRerun ==
  /\ InitScreen
  /\ \E ends \in [1..screener.max_index -> PrimitiveOutcomes],
        sym \in SymOutcomes :
       primitives = [fixed |-> TRUE, ends |-> ends, sym |-> sym]

\* An action of the program, the library's part in it as it is fixed.
Det(A) == A /\ Obeys'

NextRerun ==
  \/ Det(OrientGen)
  \/ Det(OrientGetSlab)
  \/ Det(MakeSupercell)
  \/ Det(FinalGen)
  \/ Det(FinalCut)
  \/ Det(Orthogonalize)
  \/ Det(ScreenEnumerate)
  \/ Det(ScreenProgress)
  \/ Det(ScreenCallBuilder)
  \/ Det(ScreenExcept)
  \/ Det(ScreenGotSlabs)
  \/ Det(ScreenSlab)
  \/ Det(ScreenNextIndex)
  \/ Det(ScreenFinalProgress)
  \/ Det(ScreenReturn)
  \/ Det(ClientScreen)
  \/ ClientScreenAgain

SpecRerun == InitRerun /\ [][NextRerun]_vars

\* --------------------------------------------- surface regions and matching

\* The lowest and the highest Cartesian z of the sites of a slab.
MinZ(slab) ==
  CHOOSE z \in { slab.sites[i].z : i \in DOMAIN slab.sites } :
    \A i \in DOMAIN slab.sites : z <= slab.sites[i].z
MaxZ(slab) ==
  CHOOSE z \in { slab.sites[i].z : i \in DOMAIN slab.sites } :
    \A i \in DOMAIN slab.sites : z >= slab.sites[i].z

\* Variant: the band is open at its upper end.
cut_out_z_region_half_open(structure, zmin, zmax) ==
  LET In(site) == zmin <= site.z /\ site.z < zmax
      new_sites == SelectSeq(structure.sites, In)
  IN  IF new_sites = <<>> THEN NoStruct ELSE StructOf(new_sites)

\* cut_out_z_region: the sites with zmin <= z <= zmax, in order, as a new
\* structure; None if there is none.
cut_out_z_region(structure, zmin, zmax) ==
  LET In(site) == zmin <= site.z /\ site.z <= zmax
      new_sites == SelectSeq(structure.sites, In)
  IN  IF new_sites = <<>> THEN NoStruct ELSE StructOf(new_sites)

\* rotate_bottom_180: every site with x and z negated, in order.
rotate_bottom_180(structure) ==
  StructOf([i \in DOMAIN structure.sites |->
              [structure.sites[i] EXCEPT !.x = 0 - @, !.z = 0 - @]])

\* Variant: the bottom region is rotated whatever it is.
TruthyAlways(structure) == TRUE

\* "if bottom_struct": a structure with at least one site.
Truthy(structure) == structure.some /\ Len(structure.sites) > 0

\* Variant: only a call without any structure is answered at once.
EitherIsNoneBoth(top_struct, bottom_struct) ==
  ~top_struct.some /\ ~bottom_struct.some

\* top_struct is None or bottom_struct is None
EitherIsNone(top_struct, bottom_struct) ==
  ~top_struct.some \/ ~bottom_struct.some

\* Variant: the RMSD is computed whether or not the structures fit.
AfterFitAlwaysRms(is_match) == "cmp_rms"

\* if is_match: on to get_rms_dist; otherwise return (False, None).
AfterFit(is_match) == IF is_match THEN "cmp_rms" ELSE "compared"

LibCall(fn, ret) == [fn |-> fn, ret |-> ret]

\* extract_surface_regions(slab, compare_depth), called on a generated slab.
ExtractSurfaceRegions ==
  /\ apc = "idle"
  /\ \E slab \in SlabInputs, compare_depth \in Depths :
       LET z_min == MinZ(slab)
           z_max == MaxZ(slab)
           top_struct == cut_out_z_region(slab, z_max - compare_depth, z_max)
           bottom_struct == cut_out_z_region(slab, z_min, z_min + compare_depth)
       IN  /\ region_args' = [slab |-> slab, compare_depth |-> compare_depth]
           /\ IF Truthy(bottom_struct)
                THEN /\ regions' = [top |-> top_struct,
                                    bottom |-> rotate_bottom_180(bottom_struct)]
                     /\ lib_calls' = Append(lib_calls,
                                            LibCall("rotate_bottom_180", "structure"))
                ELSE /\ regions' = [top |-> top_struct, bottom |-> NoStruct]
                     /\ UNCHANGED lib_calls
  /\ apc' = "extracted"
  /\ UNCHANGED <<cmp_args, cmp_result>>
  /\ UNCHANGED <<screenVars, rerunVars, guiVars>>

\* compare_structures(top_struct, bottom_struct) up to the matcher's
\* construction; the caller passes the regions it extracted, or None.
CompareStructures ==
  /\ apc = "extracted"
  /\ \E top_struct \in {NoStruct, regions.top},
        bottom_struct \in {NoStruct, regions.bottom} :
       /\ cmp_args' = [top |-> top_struct, bottom |-> bottom_struct]
       /\ IF EitherIsNone(top_struct, bottom_struct)
            THEN /\ cmp_result' = <<FALSE, None>>
                 /\ apc' = "compared"
                 /\ UNCHANGED lib_calls
            ELSE /\ lib_calls' = Append(lib_calls,
                                        LibCall("StructureMatcher", "matcher"))
                 /\ apc' = "cmp_fit"
                 /\ UNCHANGED cmp_result
  /\ UNCHANGED <<region_args, regions>>
  /\ UNCHANGED <<screenVars, rerunVars, guiVars>>

\* is_match = matcher.fit(top_struct, bottom_struct): the matcher answers or
\* raises; without a fit the function returns (False, None).
MatcherFit ==
  /\ apc = "cmp_fit"
  /\ \/ \E is_match \in BOOLEAN :
          /\ lib_calls' = Append(lib_calls,
                 LibCall("fit", IF is_match THEN "True" ELSE "False"))
          /\ apc' = AfterFit(is_match)
          /\ IF AfterFit(is_match) = "compared"
               THEN cmp_result' = <<FALSE, None>>
               ELSE UNCHANGED cmp_result
     \/ /\ lib_calls' = Append(lib_calls, LibCall("fit", "raise"))
        /\ apc' = "cmp_raised"
        /\ UNCHANGED cmp_result
  /\ UNCHANGED <<region_args, regions, cmp_args>>
  /\ UNCHANGED <<screenVars, rerunVars, guiVars>>

\* rmsd, max_dist = matcher.get_rms_dist(...); return (True, rmsd)
MatcherRmsDist ==
  /\ apc = "cmp_rms"
  /\ \/ \E rmsd \in RmsdValues :
          /\ lib_calls' = Append(lib_calls, LibCall("get_rms_dist", rmsd))
          /\ cmp_result' = <<TRUE, rmsd>>
          /\ apc' = "compared"
     \/ /\ lib_calls' = Append(lib_calls, LibCall("get_rms_dist", "raise"))
        /\ apc' = "cmp_raised"
        /\ UNCHANGED cmp_result
  /\ UNCHANGED <<region_args, regions, cmp_args>>
  /\ UNCHANGED <<screenVars, rerunVars, guiVars>>

\* The surface comparison runs on a slab at hand; no screener is involved.
InitRegions == Init /\ screener.max_index = 0 /\ screener.z_reps = 1

NextRegions ==
  \/ ExtractSurfaceRegions
  \/ CompareStructures
  \/ MatcherFit
  \/ MatcherRmsDist

SpecRegions == InitRegions /\ [][NextRegions]_vars

\* ------------------------------------------ ScreeningDialog and its worker

\* The text of the "Symmetric" cell of a row.
SymText(is_symmetric) ==
  IF is_symmetric = "True" THEN "Yes"
  ELSE IF is_symmetric = "False" THEN "No" ELSE "N/A"

\* _populate_table(results): one row per record, in list order; the first
\* cell keeps the record's position (from 0) in the list.
TableOf(rs) ==
  [row \in 1..Len(rs) |->
     [index |-> row - 1, miller |-> rs[row].miller,
      shift |-> Round4(rs[row].shift), num_atoms |-> rs[row].num_atoms,
      symmetric |-> SymText(rs[row].is_symmetric)]]

\* bool(results)
NonEmpty(rs) == rs # <<>>

\* Variant: the Run button stays enabled while the worker runs.
RunButtonAtStartEnabled == TRUE

\* self.run_button.setEnabled(False)
RunButtonAtStart == FALSE

\* Click on "Run Screening" (a disabled button does not click):
\* _run_screening.  The screener is built from the spin boxes as they are,
\* and a new worker thread starts on it, at the top of screen() with the
\* emitting lambda as progress_callback.  self._worker is rebound: the worker
\* before, its screener and the copies it made are garbage.
RunScreening ==
  /\ dialog.run_button
  /\ dialog.worker < MaxWorkers
  /\ dialog' = [dialog EXCEPT !.run_button = RunButtonAtStart,
                              !.progress_bar.value = 0,
                              !.status_label = Status("Screening...", 0, 0),
                              !.table = <<>>,
                              !.results = <<>>,
                              !.worker = @ + 1,
                              !.seen = 0]
  /\ \E p \in ScreenerParams, m \in 1..MaxIndex :
       screener' = [structure |-> bulk, max_index |-> m, z_reps |-> p.z_reps,
                    vacuum |-> p.vacuum, center_slab |-> p.center_slab,
                    force_ortho |-> p.force_ortho,
                    has_failures |-> FALSE, failures |-> <<>>]
  /\ progress_callback' = "callable"
  /\ pc' = "scr_enumerate"
  /\ miller_indices' = <<>>
  /\ idx' = 0
  /\ results' = <<>>
  /\ failures' = <<>>
  /\ slabs' = <<>>
  /\ sidx' = 0
  /\ bargs' = NoArgs
  /\ bloc' = NoLocals
  /\ exc' = NoExc
  /\ outcome' = NoOutcome
  /\ cb_calls' = <<>>
  /\ build_calls' = <<>>
  /\ build_ends' = <<>>
  /\ stages' = <<>>
  /\ heap' = <<heap[bulk]>>
  /\ UNCHANGED <<bulk, emitted, rerunVars, regionVars, windowVars>>

\* A step of the worker thread inside screen(): its progress_callback is
\* lambda cur, tot: self.progress.emit(cur, tot), which queues the signal
\* (the call is in cb_calls) and returns.
Emitting(A) ==
  A /\ ~(outcome'.kind = "raised" /\ outcome'.origin = "callback")

\* A signal emitted by the worker.
Signal(worker, name, rs, message) ==
  [worker |-> worker, name |-> name, results |-> rs, message |-> message]

\* Variant: the error signal follows the finished signal.
SignalsAtEndBoth(worker, out) ==
  IF out.kind = "returned"
    THEN <<Signal(worker, "finished", out.value, ""),
           Signal(worker, "error", <<>>, "")>>
    ELSE <<Signal(worker, "error", <<>>, Str(out.exc))>>

\* ScreeningWorker.run once screen() has ended: self.finished.emit(results),
\* or in the handler self.error.emit(str(e)).
SignalsAtEnd(worker, out) ==
  IF out.kind = "returned"
    THEN <<Signal(worker, "finished", out.value, "")>>
    ELSE <<Signal(worker, "error", <<>>, Str(out.exc))>>

\* The worker thread leaves run().
WorkerEmit ==
  /\ pc = "ended"
  /\ emitted' = emitted \o SignalsAtEnd(dialog.worker, outcome)
  /\ pc' = "thread_done"
  /\ UNCHANGED <<screener, heap, bulk, progress_callback, scrLocals, bargs,
                 bloc, exc, outcome, histories, dialog>>
  /\ UNCHANGED <<rerunVars, regionVars, windowVars>>

\* The GUI thread runs _on_progress for the oldest progress signal queued.
OnProgress ==
  /\ dialog.seen < Len(cb_calls)
  /\ LET current == cb_calls[dialog.seen + 1][1]
         tot == cb_calls[dialog.seen + 1][2]
     IN  dialog' =
           IF tot > 0
             THEN [dialog EXCEPT
                     !.progress_bar = [maximum |-> tot, value |-> current],
                     !.status_label = Status("Processing", current, tot),
                     !.seen = @ + 1]
             ELSE [dialog EXCEPT !.seen = @ + 1]
  /\ UNCHANGED <<screenVars, emitted, rerunVars, regionVars, windowVars>>

\* The oldest finished/error signal queued; signals are delivered in the
\* order of their emission, so every progress signal has been handled.
Queued == Head(emitted)

SignalQueued(name) ==
  /\ emitted # <<>>
  /\ dialog.seen = Len(cb_calls)
  /\ Queued.name = name

\* getattr(self._worker.screener, "failures", [])
WorkerFailures == IF screener.has_failures THEN screener.failures ELSE <<>>

\* The GUI thread runs _on_finished(results).
OnFinished ==
  /\ SignalQueued("finished")
  /\ dialog' = [dialog EXCEPT
       !.results = Queued.results,
       !.table = TableOf(Queued.results),
       !.run_button = TRUE,
       !.export_csv_button = NonEmpty(Queued.results),
       !.export_poscar_button = NonEmpty(Queued.results),
       !.load_button = NonEmpty(Queued.results),
       !.progress_bar.value = dialog.progress_bar.maximum,
       !.status_label = Status("Done", Len(Queued.results), Len(WorkerFailures)),
       !.handled = @ + 1]
  /\ emitted' = Tail(emitted)
  /\ UNCHANGED <<screenVars, rerunVars, regionVars, windowVars>>

\* The GUI thread runs _on_error(error_msg); the message box is dismissed.
OnError ==
  /\ SignalQueued("error")
  /\ dialog' = [dialog EXCEPT !.run_button = TRUE,
                              !.status_label = Status("Error!", 0, 0),
                              !.handled = @ + 1]
  /\ emitted' = Tail(emitted)
  /\ UNCHANGED <<screenVars, rerunVars, regionVars, windowVars>>

\* What the library does for a Miller index while a dialog is open: the final
\* cut raises, or no stage does and the cut enumerates some terminations.
DialogOutcomes == { o \in PrimitiveOutcomes : o.raise \in {"none", "final_cut"} }

\* A dialog just constructed (its first screener is built by _run_screening),
\* and a library whose outcome for every Miller index is fixed.
InitDialog ==
  /\ InitScreen
  /\ screener.max_index = 0 /\ screener.z_reps = 1
  /\ \E ends \in [1..MaxIndex -> DialogOutcomes], sym \in SymOutcomes :
       primitives = [fixed |-> TRUE, ends |-> ends, sym |-> sym]

NextDialog ==
  \/ RunScreening
  \/ Emitting(Det(OrientGen))
  \/ Emitting(Det(OrientGetSlab))
  \/ Emitting(Det(MakeSupercell))
  \/ Emitting(Det(FinalGen))
  \/ Emitting(Det(FinalCut))
  \/ Emitting(Det(Orthogonalize))
  \/ Emitting(Det(ScreenEnumerate))
  \/ Emitting(Det(ScreenProgress))
  \/ Emitting(Det(ScreenCallBuilder))
  \/ Emitting(Det(ScreenExcept))
  \/ Emitting(Det(ScreenGotSlabs))
  \/ Emitting(Det(ScreenSlab))
  \/ Emitting(Det(ScreenNextIndex))
  \/ Emitting(Det(ScreenFinalProgress))
  \/ Emitting(Det(ScreenReturn))
  \/ WorkerEmit
  \/ OnProgress
  \/ OnFinished
  \/ OnError

SpecDialog == InitDialog /\ [][NextDialog]_vars

\* ------------------------------------------- MainWindow and its workers

\* The slab objects some variable of the GUI thread or a queued signal refers
\* to; the others are garbage.
Kept(objs, slab_list, queue, dialog_slab) ==
  LET keep == { slab_list[i] : i \in DOMAIN slab_list }
                \cup UNION { { queue[q].payload[i] : i \in DOMAIN queue[q].payload } :
                             q \in { q \in DOMAIN queue : queue[q].name = "finished"
                                        /\ queue[q].kind = "slab" } }
                \cup {dialog_slab}
  IN  [id \in (DOMAIN objs) \cap keep |-> objs[id]]

\* No site property "selective_dynamics".
NoFlags == [set |-> FALSE, flags |-> <<>>]

\* A slab object as the builder returns it: its sites' fractional z (in
\* tenths, one site in the lower part of the cell and one in the upper), the
\* in-plane cells it spans, its shift, and its site properties.
NewSlab(j) ==
  [frac_z |-> <<2, 6>>, cells |-> 1, shift |-> TermShift(j),
   selective_dynamics |-> NoFlags]

\* slab.make_supercell([sa, sb, 1]), in place.
ExpandSlab(s, sa) ==
  [s EXCEPT !.cells = s.cells * sa,
            !.frac_z = IF sa > 1 THEN s.frac_z \o s.frac_z ELSE s.frac_z]

\* The selective-dynamics flags of _apply_selective_dynamics: a site below
\* the threshold is frozen (FALSE), the others relax (TRUE).
SdFlags(s, threshold) ==
  [set |-> TRUE, flags |-> [i \in DOMAIN s.frac_z |-> ~(s.frac_z[i] < threshold)]]

\* self.slab.add_site_property("selective_dynamics", sd_flags), in place.
AddSiteProperty(objs, id, flags) ==
  [objs EXCEPT ![id].selective_dynamics = flags]

\* _get_chosen_structure: a copy of the uploaded structure, else a copy of
\* the selected document's structure if the index is within bounds and the
\* document has one, else None.
GetChosenStructure(w) ==
  IF w.local_structure.some
    THEN StructureCopy(w.local_structure)
    ELSE IF /\ w.selected_doc_index.some
            /\ 0 <= w.selected_doc_index.row
            /\ w.selected_doc_index.row < Len(w.structure_docs)
           THEN LET doc == w.structure_docs[w.selected_doc_index.row + 1] IN
                  IF doc.structure.some THEN StructureCopy(doc.structure)
                  ELSE NoStructure
           ELSE NoStructure

\* Variant: no index is turned away.
IsZeroIndexNever(m) == FALSE

\* h == 0 and k == 0 and l_val == 0
IsZeroIndex(m) == m[1] = 0 /\ m[2] = 0 /\ m[3] = 0

\* The workers started and not yet handled, of one kind.
Running(kind) ==
  { i \in DOMAIN workers : workers[i].kind = kind /\ workers[i].state # "handled" }

\* self._slab_worker (or _search_worker) is rebound.  A worker the attribute
\* held that is still running loses its last reference: either its thread
\* lives on and delivers, or destroying it ends the process.
Rebind(old) ==
  IF old # 0 /\ workers[old].state = "running" THEN BOOLEAN ELSE {TRUE}

\* The user can act on the window: the process lives, no modal dialog is open
\* and no handler is in progress.
CanAct == window.alive /\ ~dft.open /\ ~window.in_events

\* A worker thread object.
Worker(kind, structure, m, all) ==
  [kind |-> kind, state |-> "running", structure |-> structure, miller |-> m,
   all_terminations |-> all]

\* A signal emitted by a worker of the window.
WSignal(worker, name, payload) ==
  [worker |-> worker, kind |-> workers[worker].kind, name |-> name,
   payload |-> payload]

\* objs and the objects of a new list, under the ids of worker w.
WithSlabs(objs, w, ss) ==
  [id \in (DOMAIN objs) \cup { <<w, j>> : j \in DOMAIN ss } |->
     IF id \in DOMAIN objs THEN objs[id] ELSE ss[id[2]]]

\* generate_slabs: without a chosen structure, or with the index (0,0,0), it
\* warns and returns; else it clears the slab table and list, disables the
\* controls, stores the pending settings and starts a SlabWorker on the copy.
generate_slabs ==
  \E m \in {ZeroIndex, MillerAt(1)}, all \in BOOLEAN, sa \in SupercellValues :
    LET chosen == GetChosenStructure(window) IN
      IF ~chosen.some \/ IsZeroIndex(m)
        THEN /\ last' = Call(m, chosen.some, TRUE)
             /\ UNCHANGED <<window, workers, wqueue, objects, dft>>
        ELSE /\ Len(workers) < MaxWorkers
             /\ \E lives \in Rebind(window.slab_worker) :
                  window' = [window EXCEPT
                    !.slabs_table = SetRowCount(@, 0),
                    !.generated_slabs = <<>>,
                    !.controls = FALSE,
                    !.pending_supercell = sa,
                    !.pending_worker = Len(workers) + 1,
                    !.slab_worker = Len(workers) + 1,
                    !.alive = lives]
             /\ workers' = Append(workers, Worker("slab", chosen, m, all))
             /\ objects' = Kept(objects, <<>>, wqueue, dft.slab)
             /\ last' = Call(m, TRUE, FALSE)
             /\ UNCHANGED <<wqueue, dft>>

\* Click on "Generate Slabs" (a disabled button does not click).
ClickGenerate ==
  /\ CanAct /\ window.controls
  /\ generate_slabs
  /\ UNCHANGED <<screenVars, rerunVars, regionVars, dialogVars>>

\* Ctrl+G: the shortcut is the window's and calls generate_slabs whatever the
\* state of the button.
ShortcutGenerate ==
  /\ CanAct
  /\ generate_slabs
  /\ UNCHANGED <<screenVars, rerunVars, regionVars, dialogVars>>

\* The slabs a build returns: some terminations, or the one of get_slab().
BuiltSlabs(all) ==
  IF all THEN { [j \in 1..n |-> NewSlab(j)] : n \in 0..MaxTerms }
         ELSE { <<NewSlab(0)>> }

\* SlabWorker.run: the builder returns and finished(slabs) is emitted with
\* the new slab objects, or it raises and error(str(e)) is emitted.
SlabWorkerRun ==
  /\ window.alive
  /\ \E w \in Running("slab") :
       /\ workers[w].state = "running"
       /\ workers' = [workers EXCEPT ![w].state = "emitted"]
       /\ \/ \E ss \in BuiltSlabs(workers[w].all_terminations) :
               /\ objects' = WithSlabs(objects, w, ss)
               /\ wqueue' = Append(wqueue, WSignal(w, "finished",
                      [j \in DOMAIN ss |-> <<w, j>>]))
          \/ /\ wqueue' = Append(wqueue, WSignal(w, "error", <<>>))
             /\ UNCHANGED objects
  /\ UNCHANGED <<window, dft, last>>
  /\ UNCHANGED <<screenVars, rerunVars, regionVars, dialogVars>>

\* The GUI thread takes the oldest queued signal, if it is this one.
Delivered(kind, name) ==
  /\ window.alive
  /\ wqueue # <<>>
  /\ Head(wqueue).kind = kind
  /\ Head(wqueue).name = name

\* The signal's slot has run; the thread is over and what it held is garbage.
Handled ==
  /\ workers' = [workers EXCEPT ![Head(wqueue).worker] =
         [Worker(@.kind, NoStructure, ZeroIndex, FALSE) EXCEPT !.state = "handled"]]
  /\ wqueue' = Tail(wqueue)

\* _on_slabs_generated(final_slabs): the controls are enabled again; an empty
\* list is reported and dropped; else the slabs are expanded in place by the
\* pending supercell, become generated_slabs and fill the table, whose first
\* row becomes current and is displayed.
OnSlabsGenerated ==
  /\ Delivered("slab", "finished")
  /\ LET final_slabs == Head(wqueue).payload IN
       IF final_slabs = <<>>
         THEN /\ window' = [window EXCEPT !.controls = TRUE]
              /\ UNCHANGED objects
         ELSE /\ objects' =
                   Kept([id \in DOMAIN objects |->
                           IF \E i \in DOMAIN final_slabs : final_slabs[i] = id
                             THEN ExpandSlab(objects[id], window.pending_supercell)
                             ELSE objects[id]],
                        final_slabs, Tail(wqueue), dft.slab)
              /\ window' = [window EXCEPT
                   !.controls = TRUE,
                   !.generated_slabs = final_slabs,
                   !.slabs_table = [rows |-> Len(final_slabs), current |-> 0]]
  /\ Handled
  /\ UNCHANGED <<dft, last>>
  /\ UNCHANGED <<screenVars, rerunVars, regionVars, dialogVars>>

\* _on_slab_error(error_msg): the controls are enabled again.
OnSlabError ==
  /\ Delivered("slab", "error")
  /\ window' = [window EXCEPT !.controls = TRUE]
  /\ Handled
  /\ UNCHANGED <<objects, dft, last>>
  /\ UNCHANGED <<screenVars, rerunVars, regionVars, dialogVars>>

\* search_structures, called by the Search button or by Return in the formula
\* field (a shortcut of the field, whatever the state of the button).  Without
\* a formula, the client package or an API key it warns and returns.  Else it
\* empties the document table (the row that was current is current no more:
\* on_doc_selected(-1)) and the list, disables the controls and calls
\* processEvents(), in which the slots of queued signals run.
search_structures ==
  \E ready \in BOOLEAN :
    IF ~ready
      THEN UNCHANGED window
      ELSE /\ Len(workers) < MaxWorkers
           /\ window' = [window EXCEPT
                  !.struct_table = SetRowCount(@, 0),
                  !.selected_doc_index =
                     IF window.struct_table.current >= 0 THEN Row(0 - 1) ELSE @,
                  !.structure_docs = <<>>,
                  !.controls = FALSE,
                  !.in_events = TRUE]

ClickSearch ==
  /\ CanAct /\ window.controls
  /\ search_structures
  /\ UNCHANGED <<workers, wqueue, objects, dft, last>>
  /\ UNCHANGED <<screenVars, rerunVars, regionVars, dialogVars>>

ShortcutSearch ==
  /\ CanAct
  /\ search_structures
  /\ UNCHANGED <<workers, wqueue, objects, dft, last>>
  /\ UNCHANGED <<screenVars, rerunVars, regionVars, dialogVars>>

\* search_structures after processEvents(): the SearchWorker is created,
\* bound to _search_worker and started.
SearchStart ==
  /\ window.alive /\ window.in_events
  /\ \E lives \in Rebind(window.search_worker) :
       window' = [window EXCEPT !.in_events = FALSE,
                                !.search_worker = Len(workers) + 1,
                                !.alive = lives]
  /\ workers' = Append(workers, Worker("search", NoStructure, ZeroIndex, FALSE))
  /\ UNCHANGED <<wqueue, objects, dft, last>>
  /\ UNCHANGED <<screenVars, rerunVars, regionVars, dialogVars>>

\* SearchWorker.run: finished(docs) or error(str(e)).
SearchWorkerRun ==
  /\ window.alive
  /\ \E w \in Running("search") :
       /\ workers[w].state = "running"
       /\ workers' = [workers EXCEPT ![w].state = "emitted"]
       /\ \/ \E docs \in SearchResults :
               wqueue' = Append(wqueue, WSignal(w, "finished", docs))
          \/ wqueue' = Append(wqueue, WSignal(w, "error", <<>>))
  /\ UNCHANGED <<window, objects, dft, last>>
  /\ UNCHANGED <<screenVars, rerunVars, regionVars, dialogVars>>

\* _on_search_finished(docs): the controls are enabled again; an empty list
\* is reported; else the documents replace structure_docs and fill the
\* table, and the uploaded structure and the selection are dropped.
OnSearchFinished ==
  /\ Delivered("search", "finished")
  /\ LET docs == Head(wqueue).payload IN
       window' =
         IF docs = <<>>
           THEN [window EXCEPT !.controls = TRUE]
           ELSE [window EXCEPT
                   !.controls = TRUE,
                   !.structure_docs = docs,
                   !.struct_table = SetRowCount(@, Len(docs)),
                   !.local_structure = NoStructure,
                   !.selected_doc_index = NoRow]
  /\ Handled
  /\ UNCHANGED <<objects, dft, last>>
  /\ UNCHANGED <<screenVars, rerunVars, regionVars, dialogVars>>

\* _on_search_error(error_msg)
OnSearchError ==
  /\ Delivered("search", "error")
  /\ window' = [window EXCEPT !.controls = TRUE]
  /\ Handled
  /\ UNCHANGED <<objects, dft, last>>
  /\ UNCHANGED <<screenVars, rerunVars, regionVars, dialogVars>>

\* The user makes another row of the document table current:
\* on_doc_selected(row).
OnDocSelected ==
  /\ CanAct
  /\ \E row \in 0..(window.struct_table.rows - 1) :
       /\ row # window.struct_table.current
       /\ window' = [window EXCEPT !.struct_table.current = row,
                                   !.selected_doc_index = Row(row)]
  /\ UNCHANGED <<workers, wqueue, objects, dft, last>>
  /\ UNCHANGED <<screenVars, rerunVars, regionVars, dialogVars>>

\* upload_bulk_structure (the Browse button, never disabled, or Ctrl+O): the
\* file dialog is cancelled, or the file does not parse (an error box), or
\* its structure becomes local_structure and the documents, their table and
\* the selection are dropped.
UploadBulkStructure ==
  /\ CanAct
  /\ \E parsed \in BOOLEAN :
       window' =
         IF parsed
           THEN [window EXCEPT
                   !.local_structure = FileStructure,
                   !.struct_table = SetRowCount(@, 0),
                   !.structure_docs = <<>>,
                   !.selected_doc_index = NoRow]
           ELSE window
  /\ UNCHANGED <<workers, wqueue, objects, dft, last>>
  /\ UNCHANGED <<screenVars, rerunVars, regionVars, dialogVars>>

\* The row of the slab table that is current, if it is a row of the list.
SlabIndexValid ==
  /\ 0 <= window.slabs_table.current
  /\ window.slabs_table.current < Len(window.generated_slabs)

CurrentSlab == window.generated_slabs[window.slabs_table.current + 1]

\* The user makes another row of the slab table current: _on_slab_selected
\* displays the slab of the row.
OnSlabSelected ==
  /\ CanAct
  /\ \E row \in 0..(window.slabs_table.rows - 1) :
       /\ row # window.slabs_table.current
       /\ window' = [window EXCEPT !.slabs_table.current = row]
  /\ UNCHANGED <<workers, wqueue, objects, dft, last>>
  /\ UNCHANGED <<screenVars, rerunVars, regionVars, dialogVars>>

\* export_selected_slab (the Export button or Ctrl+E): without a valid row
\* it warns; else Poscar(slab) or CifWriter(slab) writes the file, unless
\* the save dialog is cancelled.
ExportSelectedSlab ==
  /\ CanAct
  /\ SlabIndexValid
  /\ window' = [window EXCEPT !.exported = "export_selected_slab"]
  /\ UNCHANGED <<workers, wqueue, objects, dft, last>>
  /\ UNCHANGED <<screenVars, rerunVars, regionVars, dialogVars>>

\* _export_all_slabs (the Export All button): Poscar(slab) writes one file
\* per slab of the list.
ExportAllSlabs ==
  /\ CanAct /\ window.controls
  /\ window.generated_slabs # <<>>
  /\ window' = [window EXCEPT !.exported = "_export_all_slabs"]
  /\ UNCHANGED <<workers, wqueue, objects, dft, last>>
  /\ UNCHANGED <<screenVars, rerunVars, regionVars, dialogVars>>

\* _open_dft_dialog (the DFT button or Ctrl+D): without a valid row it warns;
\* else DFTInputDialog(slab) is constructed on the slab of the list itself
\* and runs modally, selective dynamics unchecked.
OpenDftDialog ==
  /\ CanAct
  /\ SlabIndexValid
  /\ dft' = [NoDft EXCEPT !.open = TRUE, !.slab = CurrentSlab]
  /\ UNCHANGED <<window, workers, wqueue, objects, last>>
  /\ UNCHANGED <<screenVars, rerunVars, regionVars, dialogVars>>

\* The user ticks or clears "Selective dynamics".
DftSettings ==
  /\ window.alive /\ dft.open
  /\ dft' = [dft EXCEPT !.selective_dynamics_check = ~@]
  /\ UNCHANGED <<window, workers, wqueue, objects, last>>
  /\ UNCHANGED <<screenVars, rerunVars, regionVars, dialogVars>>

\* _generate with an output directory chosen: _apply_selective_dynamics,
\* then generator.generate writes POSCAR and the other files and the dialog
\* closes, or it raises and the dialog stays open.
DftGenerate ==
  /\ window.alive /\ dft.open
  /\ LET flagged ==
           IF dft.selective_dynamics_check
             THEN AddSiteProperty(objects, dft.slab,
                                  SdFlags(objects[dft.slab], dft.freeze_threshold))
             ELSE objects
     IN  \/ /\ window' = [window EXCEPT !.exported = "generate"]
            /\ dft' = NoDft
            /\ objects' = Kept(flagged, window.generated_slabs, wqueue, NoSlab)
         \/ /\ objects' = flagged
            /\ UNCHANGED <<window, dft>>
  /\ UNCHANGED <<workers, wqueue, last>>
  /\ UNCHANGED <<screenVars, rerunVars, regionVars, dialogVars>>

\* Cancel: the dialog closes.
DftClose ==
  /\ window.alive /\ dft.open
  /\ dft' = NoDft
  /\ objects' = Kept(objects, window.generated_slabs, wqueue, NoSlab)
  /\ UNCHANGED <<window, workers, wqueue, last>>
  /\ UNCHANGED <<screenVars, rerunVars, regionVars, dialogVars>>

\* A window just constructed.
InitWindow == Init /\ screener.max_index = 0 /\ screener.z_reps = 1

NextWindow ==
  \/ ClickGenerate
  \/ ShortcutGenerate
  \/ SlabWorkerRun
  \/ OnSlabsGenerated
  \/ OnSlabError
  \/ ClickSearch
  \/ ShortcutSearch
  \/ SearchStart
  \/ SearchWorkerRun
  \/ OnSearchFinished
  \/ OnSearchError
  \/ OnDocSelected
  \/ UploadBulkStructure
  \/ OnSlabSelected
  \/ ExportSelectedSlab
  \/ ExportAllSlabs
  \/ OpenDftDialog
  \/ DftSettings
  \/ DftGenerate
  \/ DftClose

SpecWindow == InitWindow /\ [][NextWindow]_vars

\* The window's structure source and the start of slab generation alone: the
\* slab table, the exports and the DFT dialog are left aside.
NextSource ==
  \/ ClickGenerate
  \/ ShortcutGenerate
  \/ SlabWorkerRun
  \/ OnSlabsGenerated
  \/ OnSlabError
  \/ ClickSearch
  \/ ShortcutSearch
  \/ SearchStart
  \/ SearchWorkerRun
  \/ OnSearchFinished
  \/ OnSearchError
  \/ OnDocSelected
  \/ UploadBulkStructure

SpecSource == InitWindow /\ [][NextSource]_vars

\* ------------------------------------------------------------ properties

\* The client's call is (or was) screener.screen().
ScreenRun == pc # "idle" /\ bargs.caller # "client"

\* screen() has returned to the client.
ScreenReturned == ScreenRun /\ pc = "ended" /\ outcome.kind = "returned"

N == Len(miller_indices)

\* Position of a Miller index in the enumeration (0 if it is not in it).
Pos(m) ==
  IF \E i \in 1..N : miller_indices[i] = m
    THEN CHOOSE i \in 1..N : miller_indices[i] = m
    ELSE 0

\* The indices (positions) whose build raised.
Failed == { i \in 1..Len(build_ends) : build_ends[i].kind = "raised" }

\* The records of rs that carry Miller index m, in the order of rs.
RecordsOf(rs, m) ==
  LET Has(r) == r.miller = m IN SelectSeq(rs, Has)

RECURSIVE SumLen(_, _)
\* The number of slabs the builds at the positions up to n returned.
SumLen(ends, n) ==
  IF n = 0 THEN 0 ELSE SumLen(ends, n - 1) + Len(ends[n].slabs)

\* The step screen() takes when the builder raised: one failure record with
\* the index of the call and the stringified error, no result, next index.
C1_HandlerStep ==
  (pc = "bld_raised" /\ bargs.caller = "screen")
    => /\ failures' = Append(failures,
                             [miller |-> <<bargs.h, bargs.k, bargs.l>>,
                              error |-> exc.msg])
       /\ <<bargs.h, bargs.k, bargs.l>> = miller_indices[idx + 1]
       /\ results' = results
       /\ idx' = idx + 1
       /\ pc' = "scr_loop"

\* A screen() call does not end with a builder exception, and when it
\* returns the loop is past the last index.
C1_NoEscape ==
  (ScreenRun /\ pc = "ended")
    => /\ outcome.kind = "raised" => outcome.origin # "builder"
       /\ outcome.kind = "returned" => idx = N

\* C1: when the builder raises for one enumerated Miller index, the exception
\* does not leave screen(): the handler appends a failure record with that
\* index and the stringified error, adds no result, and the loop goes on with
\* the next index; screen() still returns after the last index, never ending
\* with a builder exception.
C1_FailureIsolated == [][C1_HandlerStep]_vars /\ []C1_NoEscape

\* screen() returned although the first index failed, with results from a
\* later index.
C1_Witness ==
  /\ ScreenReturned
  /\ N >= 2
  /\ 1 \in Failed
  /\ Len(screener.failures) = 1
  /\ screener.failures[1].miller = miller_indices[1]
  /\ screener.failures[1].error = build_ends[1].msg
  /\ Len(outcome.value) >= 1

\* C2: after screen() returns, the failure list holds exactly one record per
\* index whose build raised and none for any other index, the result list
\* holds no record of a failed index, and the number of results is the sum
\* of the numbers of slabs the builder returned for the other indices.
C2_Accounting ==
  ScreenReturned
    => /\ Len(build_ends) = N
       /\ \A i \in 1..N :
            Len(RecordsOf(screener.failures, miller_indices[i]))
              = IF i \in Failed THEN 1 ELSE 0
       /\ \A j \in 1..Len(screener.failures) :
            Pos(screener.failures[j].miller) # 0
       /\ \A j \in 1..Len(outcome.value) :
            /\ Pos(outcome.value[j].miller) # 0
            /\ Pos(outcome.value[j].miller) \notin Failed
       /\ Len(outcome.value) = SumLen(build_ends, N)
       /\ screener.has_failures
       /\ Failed = {} => screener.failures = <<>>

\* One index failed, the other returned two terminations.
C2_Witness ==
  /\ ScreenReturned
  /\ N = 2
  /\ Cardinality(Failed) = 1
  /\ Len(outcome.value) = 2
  /\ Len(screener.failures) = 1

\* The calls a complete run makes to its callback.
AllProgress(n) == [i \in 1..(n + 1) |-> <<i - 1, n>>]

\* C3: a supplied callback is called with (idx, total) immediately before
\* index idx is processed, for idx = 0, 1, ..., total-1 in this order and
\* whether or not the index fails, and once more with (total, total) after
\* the last index: total+1 calls when screen() returns, only the last one
\* with current = total.
C3_ProgressCalls ==
  (ScreenRun /\ progress_callback # None)
    => /\ Len(cb_calls) <= N + 1
       /\ \A i \in 1..Len(cb_calls) : cb_calls[i] = AllProgress(N)[i]
       /\ Len(build_calls) <= Len(cb_calls)
       /\ Len(cb_calls) <= Len(build_calls) + 1
       /\ Len(cb_calls) = N + 1 => Len(build_ends) = N
       /\ pc = "scr_try" => Len(cb_calls) = idx + 1
       /\ ScreenReturned
            => /\ cb_calls = AllProgress(N)
               /\ \A i \in 1..N : cb_calls[i][1] # N

\* A run with a callback over two indices, one of them failing, returned.
C3_Witness ==
  /\ ScreenReturned
  /\ progress_callback # None
  /\ N = 2
  /\ Failed # {}
  /\ Len(cb_calls) = 3

\* C4: the results are ordered by the enumeration order of the Miller indices
\* and, within one index, as the builder returned that index's terminations;
\* failed indices leave no gap and no reordering.
C4_ResultOrder ==
  /\ ScreenRun
       => \A a \in 1..Len(results) :
            /\ Pos(results[a].miller) # 0
            /\ a < Len(results)
                 => Pos(results[a].miller) <= Pos(results[a + 1].miller)
  /\ ScreenReturned
       => \A i \in 1..N :
            LET rs == RecordsOf(outcome.value, miller_indices[i])
            IN  [j \in 1..Len(rs) |-> rs[j].slab] = build_ends[i].slabs

\* Two terminations of one index, in the builder's order, and after them a
\* record of a later index.
C4_Witness ==
  /\ ScreenReturned
  /\ Len(outcome.value) >= 3
  /\ outcome.value[1].miller = outcome.value[2].miller
  /\ outcome.value[1].slab.term < outcome.value[2].slab.term
  /\ outcome.value[3].miller # outcome.value[1].miller

\* C5: when is_symmetric() raises for a slab, its result record is appended
\* all the same with the flag None, its Miller index gets no failure record,
\* and the next slab is processed; the flag is True or False exactly when the
\* check returned that value.
C5_SymmetryBestEffort ==
  /\ ScreenRun
       => \A j \in 1..Len(results) :
            /\ results[j].slab.sym = "Raise" <=> results[j].is_symmetric = None
            /\ results[j].slab.sym = "True" <=> results[j].is_symmetric = "True"
            /\ results[j].slab.sym = "False" <=> results[j].is_symmetric = "False"
  /\ (ScreenRun /\ pc = "scr_loop")
       => \A i \in 1..Len(build_ends) :
            build_ends[i].kind = "returned"
              => /\ RecordsOf(failures, miller_indices[i]) = <<>>
                 /\ Len(RecordsOf(results, miller_indices[i]))
                      = Len(build_ends[i].slabs)

\* The check raised on the first slab of an index; the record is there with
\* flag None, followed by the record of the next slab, and nothing failed.
C5_Witness ==
  /\ ScreenReturned
  /\ Len(outcome.value) >= 2
  /\ outcome.value[1].slab.sym = "Raise"
  /\ outcome.value[1].is_symmetric = None
  /\ outcome.value[2].miller = outcome.value[1].miller
  /\ outcome.value[2].is_symmetric = "True"
  /\ screener.failures = <<>>

\* C6: a build call with (h, k, l) = (0, 0, 0) is rejected with an
\* InvalidMillerIndex error before any geometry stage (orientation cut,
\* replication, vacuum cut) is attempted, and yields no slab.
C6_ZeroIndexRejected ==
  (bargs.caller = "client" /\ <<bargs.h, bargs.k, bargs.l>> = ZeroIndex)
    => /\ stages = <<>>
       /\ bloc.slabs = <<>>
       /\ pc = "ended"
            => /\ outcome.kind = "raised"
               /\ outcome.exc.type = "InvalidMillerIndex"

\* C7: a build call with all_terminations = false that returns returns a
\* list of exactly one slab, whatever z_reps, min_vac, center_slab and
\* force_ortho are.
C7_SingleTermination ==
  /\ (pc = "bld_return" /\ ~bargs.all_terminations) => Len(bloc.slabs) = 1
  /\ (pc = "ended" /\ bargs.caller = "client" /\ outcome.kind = "returned"
        /\ ~bargs.all_terminations)
       => Len(outcome.value) = 1

\* A single-termination build of the thickest slab, centred in vacuum and
\* orthogonalized, returned its one slab.
C7_Witness ==
  /\ pc = "ended"
  /\ bargs.caller = "client"
  /\ outcome.kind = "returned"
  /\ ~bargs.all_terminations
  /\ bargs.force_ortho /\ bargs.center_slab
  /\ bargs.z_reps = MaxZReps /\ bargs.min_vac > 0
  /\ Len(outcome.value) = 1
  /\ outcome.value[1].ortho

\* The bulk, self.structure and every structure handed to a builder call have
\* the content they had at the call; the structures the screener hands to the
\* builder are copies, a new one for every call.
C8_CallerStructureKept ==
  /\ heap[bulk] = BulkContent
  /\ heap[screener.structure] = BulkContent
  /\ \A i \in 1..Len(build_calls) : heap[build_calls[i].structure] = BulkContent
  /\ bargs.caller # "none" => heap[bargs.structure] = bloc.entry
  /\ ScreenRun
       => \A i, j \in 1..Len(build_calls) :
            /\ build_calls[i].structure # screener.structure
            /\ i # j => build_calls[i].structure # build_calls[j].structure

\* A step that changes the repeat count of a structure is the builder's
\* make_supercell on its oriented working copy.
C8_ReplicationStep ==
  \A id \in DOMAIN heap :
    heap'[id].reps # heap[id].reps
      => /\ pc = "bld_make_supercell"
         /\ id = bloc.oriented
         /\ id # bargs.structure
         /\ id # bulk

\* C8: neither the builder nor the screener mutates the caller's bulk
\* structure: whether a call returns or raises, the structure passed in and
\* self.structure keep their lattice and sites; replication is applied only to
\* the builder's own oriented working copy, and the screener hands a fresh
\* copy to every builder call.
C8_NoCallerMutation == []C8_CallerStructureKept /\ [][C8_ReplicationStep]_vars

\* A screening of two indices with z_reps > 1 returned: a working copy was
\* replicated and annotated, the bulk is as it was.
C8_Witness ==
  /\ ScreenReturned
  /\ Len(build_calls) = 2
  /\ \E id \in DOMAIN heap : heap[id].reps = MaxZReps /\ heap[id].tagged
  /\ MaxZReps > 1
  /\ heap[bulk] = BulkContent

RECURSIVE ExpectedResults(_, _, _)
\* The result list that the builder outcomes at positions 1..n determine.
ExpectedResults(mi, ends, n) ==
  IF n = 0 THEN <<>>
  ELSE ExpectedResults(mi, ends, n - 1) \o
       [j \in 1..Len(ends[n].slabs) |->
          ResultRecord(mi[n][1], mi[n][2], mi[n][3], ends[n].slabs[j])]

RECURSIVE ExpectedFailures(_, _, _)
\* The failure list that the builder outcomes at positions 1..n determine.
ExpectedFailures(mi, ends, n) ==
  IF n = 0 THEN <<>>
  ELSE ExpectedFailures(mi, ends, n - 1) \o
       (IF ends[n].kind = "raised"
          THEN << [miller |-> mi[n], error |-> ends[n].msg] >>
          ELSE <<>>)

\* The batch ran over every enumerated index and its lists are the ones the
\* enumeration and the builder outcomes determine.
BatchComplete ==
  /\ outcome.kind = "returned"
  /\ Len(build_ends) = N
  /\ outcome.value = ExpectedResults(miller_indices, build_ends, N)
  /\ screener.has_failures
  /\ screener.failures = ExpectedFailures(miller_indices, build_ends, N)

C10_OneBuildPerIndex ==
  ScreenRun
    => /\ Len(build_calls) <= N
       /\ \A i \in 1..Len(build_calls) :
            LET a == build_calls[i] IN
              /\ <<a.h, a.k, a.l>> = miller_indices[i]
              /\ a.all_terminations
              /\ a.z_reps = screener.z_reps
              /\ a.min_vac = screener.vacuum
              /\ a.center_slab = screener.center_slab
              /\ a.force_ortho = screener.force_ortho
       /\ Len(build_ends) <= Len(build_calls)
       /\ Len(build_calls) <= Len(build_ends) + 1
       /\ pc \in {"scr_loop", "scr_try"} => Len(build_calls) = idx
       /\ pc = "scr_loop" => Len(build_ends) = idx
       /\ ScreenReturned => Len(build_calls) = N

\* Two indices, the first of which failed: two builder calls, the second for
\* the second index.
C10_Witness ==
  /\ ScreenReturned
  /\ N = 2
  /\ 1 \in Failed
  /\ Len(build_calls) = 2
  /\ <<build_calls[2].h, build_calls[2].k, build_calls[2].l>> = miller_indices[2]

\* ------------------------------------- properties of the surface comparison

\* compare_structures has been called.
CompareCalled == apc \in {"cmp_fit", "cmp_rms", "compared", "cmp_raised"}

\* The matcher calls made so far (construction included).
MatcherCalls ==
  { i \in DOMAIN lib_calls :
      lib_calls[i].fn \in {"StructureMatcher", "fit", "get_rms_dist"} }

\* C11: compare_structures returns (False, None) whenever either argument is
\* None (the first only, the second only, or both), and then the matcher is
\* neither constructed nor invoked.
C11_NoneShortCircuit ==
  (CompareCalled /\ (~cmp_args.top.some \/ ~cmp_args.bottom.some))
    => /\ apc = "compared"
       /\ cmp_result = <<FALSE, None>>
       /\ MatcherCalls = {}

\* A call with a top region and None for the bottom has returned.
C11_Witness ==
  /\ apc = "compared"
  /\ cmp_args.top.some
  /\ ~cmp_args.bottom.some
  /\ cmp_result = <<FALSE, None>>

\* The calls of lib_calls to fn that returned ret.
CallsOf(fn, ret) ==
  { i \in DOMAIN lib_calls : lib_calls[i] = LibCall(fn, ret) }

\* C12: compare_structures returns a non-None rmsd only together with
\* is_match = True: when the matcher reports no fit the RMSD is not computed
\* and the result is (False, None); when it reports a fit the result is
\* (True, rmsd) with the RMSD the matcher computed.
C12_RmsdOnlyWithMatch ==
  /\ CallsOf("fit", "False") # {}
       => { i \in DOMAIN lib_calls : lib_calls[i].fn = "get_rms_dist" } = {}
  /\ apc = "compared"
       => /\ cmp_result[2] # None => cmp_result[1] = TRUE
          /\ CallsOf("fit", "False") # {} => cmp_result = <<FALSE, None>>
          /\ CallsOf("fit", "True") # {}
               => /\ cmp_result[1] = TRUE
                  /\ cmp_result[2] \in RmsdValues
                  /\ CallsOf("get_rms_dist", cmp_result[2]) # {}

\* Two regions were compared and the matcher found no fit.
C12_Witness ==
  /\ apc = "compared"
  /\ cmp_args.top.some /\ cmp_args.bottom.some
  /\ CallsOf("fit", "False") # {}
  /\ cmp_result = <<FALSE, None>>

\* C13: for a slab with at least one site, extract_surface_regions with
\* compare_depth = 0 yields None for the top and for the bottom region.
C13_ZeroDepthEmpty ==
  (apc # "idle" /\ region_args.compare_depth = 0
     /\ Len(region_args.slab.sites) >= 1)
    => regions.top = NoStruct /\ regions.bottom = NoStruct

\* The sites of a slab with lo <= z <= hi, in slab order.
Band(slab, lo, hi) ==
  LET Within(site) == lo <= site.z /\ site.z <= hi
  IN  SelectSeq(slab.sites, Within)

\* The band under the top of the slab of the call, and the one over its bottom.
TopBand ==
  LET slab == region_args.slab
      z_max == MaxZ(slab)
  IN  Band(slab, z_max - region_args.compare_depth, z_max)
BottomBand ==
  LET slab == region_args.slab
      z_min == MinZ(slab)
  IN  Band(slab, z_min, z_min + region_args.compare_depth)

\* A region holds exactly the sites ss, in order (rotated: x and z negated).
HoldsSites(region, ss, rotated) ==
  IF ss = <<>> THEN region = NoStruct
  ELSE /\ region.some
       /\ Len(region.sites) = Len(ss)
       /\ \A i \in DOMAIN ss :
            /\ region.sites[i].sp = ss[i].sp
            /\ region.sites[i].x = (IF rotated THEN 0 - ss[i].x ELSE ss[i].x)
            /\ region.sites[i].z = (IF rotated THEN 0 - ss[i].z ELSE ss[i].z)

\* C14: region membership is a closed-interval test on Cartesian z only: the
\* top region holds exactly the sites with z_max - compare_depth <= z <= z_max
\* and the bottom region exactly those with z_min <= z <= z_min +
\* compare_depth, in slab order; with compare_depth >= z_max - z_min both
\* regions hold every site of the slab.
C14_ClosedBand ==
  apc # "idle"
    => /\ HoldsSites(regions.top, TopBand, FALSE)
       /\ HoldsSites(regions.bottom, BottomBand, TRUE)
       /\ region_args.compare_depth
              >= MaxZ(region_args.slab) - MinZ(region_args.slab)
            => /\ regions.top = region_args.slab
               /\ Len(regions.bottom.sites) = Len(region_args.slab.sites)

\* A three-site slab whose top region holds two sites, one of them on the
\* lower edge of the band, and whose bottom region leaves a site out.
C14_Witness ==
  /\ apc = "extracted"
  /\ region_args.compare_depth > 0
  /\ Len(region_args.slab.sites) = 3
  /\ regions.top.some /\ Len(regions.top.sites) = 2
  /\ \E i \in 1..2 :
       regions.top.sites[i].z
         = MaxZ(region_args.slab) - region_args.compare_depth
  /\ regions.bottom.some /\ Len(regions.bottom.sites) < 3

\* The rotations made so far.
Rotations == { i \in DOMAIN lib_calls : lib_calls[i].fn = "rotate_bottom_180" }

\* C15: an empty region is a soft condition: when no site falls in a
\* region's band, extract_surface_regions returns None in that region's slot
\* (first the top, second the bottom) instead of raising, the rotation is
\* applied only when the bottom region exists, and a region that has sites is
\* returned whatever the other one is.
C15_EmptyRegionIsNone ==
  apc # "idle"
    => /\ TopBand = <<>> => regions.top = NoStruct
       /\ TopBand # <<>> => regions.top.some
       /\ BottomBand = <<>> => regions.bottom = NoStruct /\ Rotations = {}
       /\ BottomBand # <<>> => regions.bottom.some /\ Cardinality(Rotations) = 1

\* A negative depth leaves both bands without a site: the call returned
\* (None, None) and rotated nothing.
C15_Witness ==
  /\ apc = "extracted"
  /\ region_args.compare_depth < 0
  /\ BottomBand = <<>>
  /\ regions = NoRegions
  /\ lib_calls = <<>>

\* ------------------------------------------------ properties of one build

\* A build call has returned its list (to the screener or to the client).
BuildReturned == pc = "bld_return"

\* The last step of a build that returns: what it returns is the list the
\* final cut made, slab by slab, each orthogonalized if force_ortho is set.
C16_ReturnStep ==
  (pc = "bld_orthogonalize" /\ pc' = "bld_return")
    => /\ Len(bloc'.slabs) = Len(bloc.slabs)
       /\ \A i \in DOMAIN bloc.slabs :
            /\ bloc'.slabs[i].term = bloc.slabs[i].term
            /\ bloc'.slabs[i].shift = bloc.slabs[i].shift
            /\ bloc'.slabs[i].ortho = bargs.force_ortho
       /\ build_ends'[Len(build_ends')].slabs = bloc'.slabs

\* C16: orthogonalization never drops or merges terminations: a build with
\* force_ortho returns as many slabs as the final cut enumerated (as many as
\* without force_ortho), the i-th of them the orthogonalized i-th
\* termination; nothing is deduplicated afterwards.
C16_OrthoKeepsTerminations == [][C16_ReturnStep]_vars

\* A build with force_ortho returned two orthogonalized terminations that
\* is_symmetric() does not tell apart.
C16_Witness ==
  /\ BuildReturned
  /\ bargs.force_ortho /\ bargs.all_terminations
  /\ Len(bloc.slabs) = 2
  /\ bloc.slabs[1].ortho /\ bloc.slabs[2].ortho
  /\ bloc.slabs[1].sym = bloc.slabs[2].sym
  /\ bloc.slabs[1].term # bloc.slabs[2].term

\* C18: the shift of the single slab a build with all_terminations=False
\* returns is the shift of one of the slabs the same build returns with
\* all_terminations=True.
C18_SingleShiftAmongAll ==
  (BuildReturned /\ ~bargs.all_terminations)
    => \E terms \in TermLists(heap[bloc.oriented].reps,
                              CutCell(heap[bloc.oriented].reps, bargs.min_vac)) :
         \E j \in DOMAIN terms : terms[j].shift = bloc.slabs[1].shift

\* C19: with everything else fixed, raising z_reps from n to n+1 does not
\* decrease the atom count of the slab: every slab a build returns has the
\* atoms of the structure it was given z_reps times over, which is no less
\* than the count for any smaller z_reps.
C19_AtomsGrowWithZReps ==
  BuildReturned
    => \A i \in DOMAIN bloc.slabs :
         /\ bloc.slabs[i].num_atoms = bloc.entry.reps * bargs.z_reps
         /\ \A n \in 1..bargs.z_reps :
              bloc.slabs[i].num_atoms >= bloc.entry.reps * n

\* A build with the largest z_reps returned a slab.
C19_Witness ==
  /\ BuildReturned
  /\ bargs.z_reps = MaxZReps
  /\ Len(bloc.slabs) >= 1
  /\ bloc.slabs[1].num_atoms > bloc.entry.reps

\* The length of c of the slabs of a build like the current one but with
\* vacuum v.
CLenWith(v) ==
  LET cell == CutCell(bloc.entry.reps * bargs.z_reps, v)
  IN  IF bargs.force_ortho THEN cell.c_height ELSE cell.c_len

\* C20: with everything else fixed, increasing min_vac does not decrease the
\* length of the slab's c vector: the c of every slab a build returns is at
\* least the c the same build has with any smaller vacuum.
C20_CGrowsWithVacuum ==
  BuildReturned
    => \A i \in DOMAIN bloc.slabs :
         \A v \in VacuumValues :
           v <= bargs.min_vac => bloc.slabs[i].c_len >= CLenWith(v)

\* A build with vacuum returned a slab whose c is longer than without.
C20_Witness ==
  /\ BuildReturned
  /\ bargs.min_vac > 0
  /\ Len(bloc.slabs) >= 1
  /\ bloc.slabs[1].c_len > CLenWith(0)

\* ------------------------------------------------ properties of two runs

\* C17: screening is deterministic: with a deterministic library, two screen()
\* runs on the same structure and settings return result lists with the same
\* Miller index and shift at every position, and leave the same failure list.
C17_RerunSame ==
  (run >= 1 /\ pc = "ended" /\ outcome.kind = "returned" /\ prev.returned)
    => /\ Len(outcome.value) = Len(prev.value)
       /\ \A i \in DOMAIN prev.value :
            /\ outcome.value[i].miller = prev.value[i].miller
            /\ outcome.value[i].shift = prev.value[i].shift
       /\ screener.failures = prev.failures

\* A second run returned after a first that had results and a failure.
C17_Witness ==
  /\ run = 1 /\ pc = "ended" /\ outcome.kind = "returned" /\ prev.returned
  /\ Len(prev.value) >= 2
  /\ Len(prev.failures) >= 1
  /\ Len(outcome.value) >= 2

StagesInOrder ==
  /\ Len(stages) <= Len(StageOrder)
  /\ \A i \in DOMAIN stages : stages[i] = StageOrder[i]

\* The build in progress is at one of the builder's positions.
InBuild ==
  pc \in {"bld_orient_gen", "bld_orient_get_slab", "bld_make_supercell",
          "bld_final_gen", "bld_final_cut", "bld_orthogonalize",
          "bld_return", "bld_raised"}

\* C23: oriented_slab_replication runs its stages in a fixed order:
\* orientation cut of a copy of the structure, replication of the oriented
\* cell by z_reps along c, the final cut with min_vac enumerating all
\* terminations or one, and orthogonalization only if force_ortho and only
\* after the cut; when a stage raises, no later stage runs and the error
\* reaches the caller, who gets no second call.
C23_StageOrder ==
  /\ InBuild
       => /\ StagesInOrder
          /\ pc = "bld_raised"
               => /\ stages # <<>>
                  /\ exc.msg = stages[Len(stages)]
                  /\ build_ends[Len(build_ends)].kind = "raised"
          /\ pc = "bld_return"
               => /\ Len(stages) = (IF bargs.force_ortho THEN 6 ELSE 5)
                  /\ heap[bloc.src] = [bloc.entry EXCEPT !.tagged = TRUE]
                  /\ bloc.src # bargs.structure
                  /\ heap[bloc.oriented].reps = bloc.entry.reps * bargs.z_reps
                  /\ \A i \in DOMAIN bloc.slabs :
                       /\ bloc.slabs[i].ortho = bargs.force_ortho
                       /\ bloc.slabs[i].c_height
                            = CutCell(bloc.entry.reps * bargs.z_reps,
                                      bargs.min_vac).c_height
                       /\ bargs.all_terminations <=> bloc.slabs[i].term # 0
          /\ Len(stages) >= 5 => pc # "bld_final_cut"
  /\ (pc = "ended" /\ bargs.caller = "client" /\ outcome.kind = "raised")
       => /\ Len(build_calls) = 1
          /\ outcome.exc.msg = stages[Len(stages)]
          /\ StagesInOrder

\* A direct build raised in its final cut: the four stages before it ran,
\* orthogonalization did not, and the client got the error.
C23_Witness ==
  /\ pc = "ended" /\ bargs.caller = "client" /\ outcome.kind = "raised"
  /\ bargs.force_ortho
  /\ stages = <<"orient_gen", "orient_get_slab", "make_supercell", "final_gen",
                "final_cut">>

\* C24: the screener's failure list reflects only the most recent completed
\* run: after every screen() call that returns, the first or a later one on
\* the same screener, self.failures holds exactly the failures of that call
\* (replaced, not accumulated), and the returned list holds the records of
\* that call only.
C24_FailuresOfLastRun ==
  (pc = "ended" /\ bargs.caller # "client" /\ outcome.kind = "returned")
    => /\ screener.has_failures
       /\ Len(build_ends) = N
       /\ screener.failures = ExpectedFailures(miller_indices, build_ends, N)
       /\ Len(screener.failures) = Cardinality(Failed)
       /\ outcome.value = ExpectedResults(miller_indices, build_ends, N)
       /\ Len(outcome.value) = SumLen(build_ends, N)

\* A second call returned, on a screener whose first call had left a failure
\* and returned a result.
C24_Witness ==
  /\ run = 1 /\ pc = "ended" /\ outcome.kind = "returned"
  /\ Len(prev.failures) >= 1
  /\ Len(prev.value) >= 1
  /\ Len(screener.failures) >= 1

\* The worker thread has left run().
WorkerDone == pc = "thread_done"

\* The finished/error signal of the current worker, once emitted and until
\* its slot has run.
OwnSignals == SelectSeq(emitted, LAMBDA sig : sig.worker = dialog.worker)

\* A step in which a finished/error signal is emitted is the last step of a
\* worker whose screen() call has ended, and after it the worker calls the
\* progress callback no more.
C25_EmitStep ==
  /\ Len(emitted') > Len(emitted)
       => pc = "ended" /\ pc' = "thread_done" /\ cb_calls' = cb_calls
  /\ (pc = "thread_done" /\ pc' = "thread_done") => cb_calls' = cb_calls

\* C25: every run of a ScreeningWorker emits exactly one of finished(results)
\* and error(message), after every progress signal of the run; finished
\* carries the list screen() returned; the progress signals of a run that
\* completed carry current = 0..total-1 in order and then current = total.
C25_OneFinalSignal ==
  /\ [](dialog.worker > 0
         => /\ dialog.handled + Len(emitted)
                 = dialog.worker - (IF WorkerDone THEN 0 ELSE 1)
            /\ (WorkerDone /\ outcome.kind = "returned")
                 => /\ cb_calls = AllProgress(N)
                    /\ \A i \in DOMAIN OwnSignals :
                         OwnSignals[i] = Signal(dialog.worker, "finished",
                                                outcome.value, "")
            /\ (WorkerDone /\ outcome.kind = "raised")
                 => \A i \in DOMAIN OwnSignals :
                      OwnSignals[i] = Signal(dialog.worker, "error", <<>>,
                                             Str(outcome.exc)))
  /\ [][C25_EmitStep]_vars

\* A worker screened the largest number of Miller indices, got a result and
\* emitted finished; its signal is still queued.
C25_Witness ==
  /\ WorkerDone /\ outcome.kind = "returned"
  /\ N = MaxIndex
  /\ Len(OwnSignals) = 1
  /\ OwnSignals[1].name = "finished"
  /\ OwnSignals[1].results # <<>>

\* The workers started whose finished/error signal has not been handled.
InFlight == dialog.worker - dialog.handled

\* C26: the Run button of the ScreeningDialog is disabled from the start of a
\* screening until the finished or error signal of that run has been handled
\* and is enabled again afterwards on both paths; so at most one worker of
\* the dialog is in flight, and a signal delivered is of the latest worker.
C26_OneWorker ==
  /\ InFlight \in {0, 1}
  /\ dialog.run_button <=> InFlight = 0
  /\ Len(emitted) <= InFlight
  /\ \A i \in DOMAIN emitted : emitted[i].worker = dialog.worker

\* The second run of a dialog ended in error and the error was handled: the
\* Run button is enabled again.
C26_Witness ==
  /\ dialog.worker = 2 /\ dialog.handled = 2
  /\ dialog.status_label.text = "Error!"
  /\ dialog.run_button

\* C27: whenever Export to CSV, Export All as POSCAR or Load Selected is
\* enabled in the ScreeningDialog, the dialog's result list is non-empty and
\* equals the results shown in the table.
C27_ExportsImplyResults ==
  (dialog.export_csv_button \/ dialog.export_poscar_button \/ dialog.load_button)
    => /\ dialog.results # <<>>
       /\ dialog.table = TableOf(dialog.results)

\* A slab object of the window's list is the same after the step.
ListedSlabsKept ==
  \A i \in DOMAIN window.generated_slabs :
    LET id == window.generated_slabs[i] IN
      id \in DOMAIN objects' => objects'[id] = objects[id]

\* C22: preparing and generating DFT inputs for a slab, exporting it or
\* displaying it leaves the slab held in the main window's list exactly as
\* it was: its sites, its lattice and its site properties.
C22_SlabsReadOnly == [][ListedSlabsKept]_vars

\* The slab workers whose result is still to be handled.
SlabRuns == Running("slab")

\* C28: at most one slab-generation run is in flight at any time, the
\* pending settings belong to the run whose result is delivered, and the
\* generation controls are disabled exactly while a worker is running.
C28_OneSlabRun ==
  /\ window.alive
  /\ Cardinality(SlabRuns) <= 1
  /\ \A w \in SlabRuns : w = window.pending_worker
  /\ window.controls <=>
       (Running("slab") = {} /\ Running("search") = {} /\ ~window.in_events)

\* The step starts a slab worker.
StartsSlabWorker ==
  /\ Len(workers') = Len(workers) + 1
  /\ workers'[Len(workers')].kind = "slab"

\* The step is a generate_slabs call with the index (0,0,0).
ZeroIndexCall == last' # last /\ last'.miller = <<0, 0, 0>>

\* The step is a generate_slabs call with another index and a structure.
OtherIndexCall == last' # last /\ last'.miller # <<0, 0, 0>> /\ last'.chosen

C29_Step ==
  /\ ZeroIndexCall =>
       /\ last'.warned
       /\ UNCHANGED <<window, workers, wqueue, objects, dft>>
  /\ OtherIndexCall => StartsSlabWorker
  /\ StartsSlabWorker =>
       /\ SubSeq(workers', 1, Len(workers)) = workers
       /\ workers'[Len(workers')].miller # <<0, 0, 0>>
       /\ workers'[Len(workers')].structure = GetChosenStructure(window)
       /\ workers'[Len(workers')].structure.some
       /\ last' = Call(workers'[Len(workers')].miller, TRUE, FALSE)
       /\ ~window'.controls
       /\ window'.generated_slabs = <<>>
       /\ window'.slabs_table.rows = 0

\* C29: generate_slabs with the Miller index (0,0,0) warns and returns
\* without starting a SlabWorker, without clearing the slab table or
\* generated_slabs and without disabling a control; with any other index and
\* a chosen structure it starts exactly one worker.
C29_ZeroIndexRejected == [][C29_Step]_vars

\* A call with (0,0,0) was turned away while a structure was chosen and
\* slabs were listed, and the list is still there.
C29_Witness ==
  /\ last = Call(<<0, 0, 0>>, TRUE, TRUE)
  /\ window.generated_slabs # <<>>
  /\ window.slabs_table.rows = Len(window.generated_slabs)
  /\ window.controls

\* The structures the window stores: the uploaded one and the documents'.
Stored ==
  { window.local_structure }
    \cup { window.structure_docs[i].structure : i \in DOMAIN window.structure_docs }

\* selected_doc_index is a row of structure_docs.
IndexInBounds ==
  /\ window.selected_doc_index.some
  /\ 0 <= window.selected_doc_index.row
  /\ window.selected_doc_index.row < Len(window.structure_docs)

\* C30: local_structure being set implies structure_docs is empty;
\* selected_doc_index is used only when it is within the bounds of
\* structure_docs; _get_chosen_structure returns a copy, never the stored
\* structure itself.
C30_SourceUnambiguous ==
  /\ window.local_structure.some => window.structure_docs = <<>>
  /\ (~IndexInBounds /\ ~window.local_structure.some)
        => GetChosenStructure(window) = NoStructure
  /\ LET chosen == GetChosenStructure(window) IN
       chosen.some => chosen.copy /\ chosen \notin Stored
  /\ \A w \in DOMAIN workers :
       workers[w].structure.some => workers[w].structure.copy

\* An upload followed a search that had delivered documents and had a row
\* selected, and a slab worker runs on the copy of the uploaded structure.
C30_Witness ==
  /\ window.local_structure.some
  /\ \E w \in DOMAIN workers :
       workers[w].kind = "search" /\ workers[w].state = "handled"
  /\ \E w \in DOMAIN workers :
       /\ workers[w].kind = "slab"
       /\ workers[w].structure = StructureCopy(FileStructure)

====
